---- MODULE Spec2Model ----
(***************************************************************************)
(* Hybrid retrieval, context assembly and response cache of the            *)
(* car-ticket-chatbot RAG pipeline.                                        *)
(*                                                                         *)
(* Text is modelled by its length where only lengths decide the behaviour  *)
(* (build_context) and by sequences of one-character strings where the     *)
(* characters decide it (_get_cache_key).  Scores are integers in          *)
(* thousandths (1000 = 1.0); weights are integers in hundredths.           *)
(***************************************************************************)
EXTENDS Integers, Sequences, FiniteSets, TLC

VARIABLES
    ctxIn,      \* arguments of one build_context call
    ctxOut,     \* the list `parts` and the length of the returned string
    keyIn,      \* two argument tuples given to _get_cache_key
    keyOut,     \* the two keys returned
    cache,      \* RAGPipeline._cache: key -> [response, timestamp]
    now,        \* datetime.now(), in hours
    lastGet,    \* the latest direct _get_cached_response call and its result
    lastPut,    \* per key, the latest _cache_response call (value, time)
    lastQ,      \* the latest RAGPipeline.query call and its outcome
    thr,        \* per thread: position in _get_cached_response and locals
    everPut,    \* per key, every value stored under it so far
    fuseIn,     \* arguments of one _hybrid_retrieve call
    fuseOut,    \* the ranked list it returned
    world,      \* the Chroma collection, its capabilities, the BM25 file
    rag,        \* the LangchainRAG object (retrievers chosen at construction)
    vdb,        \* the VectorDBManager object (BM25 index loaded or not)
    out,        \* the latest retrieval call and what it returned
    statIn,     \* the pipeline's provider and model, and the backends' replies
    statOut,    \* the status dictionary check_ollama_status returned
    tokIn,      \* the query given to the BM25 token selection
    tokOut,     \* the query_tokens it built
    spIn,       \* the BM25 index and the k of one sparse candidate selection
    spOut,      \* the bm25_candidate_ids it built
    drIn,       \* num_drafts of one multi-draft query and the backend's failures
    drOut,     \* the list responses of its draft loop
    files,      \* processed_tickets.json and guides_chunks.json
    ing,        \* the Chroma collections and the BM25 pickle
    ingLog,    \* the latest ingestion run and whether it raised
    chIn,       \* the word count of a paragraph, target_words and overlap_words
    chSt        \* chunk_paragraph's position, start and chunks

ctxVars == <<ctxIn, ctxOut>>
keyVars == <<keyIn, keyOut>>
cacheVars == <<cache, now, lastGet, lastPut, lastQ>>
thrVars == <<thr, everPut>>
fuseVars == <<fuseIn, fuseOut>>
storeVars == <<world, rag, vdb, out>>
statVars == <<statIn, statOut>>
tokVars == <<tokIn, tokOut>>
spVars == <<spIn, spOut>>
drVars == <<drIn, drOut>>
ingVars == <<files, ing, ingLog>>
chVars == <<chIn, chSt>>
extVars == <<spVars, drVars, ingVars, chVars>>
auxVars == <<statIn, statOut, tokIn, tokOut, extVars>>

vars == <<ctxIn, ctxOut, keyIn, keyOut, cache, now, lastGet, lastPut, lastQ,
          thr, everPut, fuseIn, fuseOut, world, rag, vdb, out,
          statIn, statOut, tokIn, tokOut, extVars>>

-----------------------------------------------------------------------------
(* Generic helpers *)

Min(a, b) == IF a < b THEN a ELSE b
Max(a, b) == IF a > b THEN a ELSE b

RECURSIVE SumLen(_)
SumLen(s) == IF s = <<>> THEN 0 ELSE Head(s).len + SumLen(Tail(s))

\* Sequences over S of length 0..n
SeqUpTo(S, n) == UNION {[1..m -> S] : m \in 0..n}

\* len(str(n)) for a non-negative integer
RECURSIVE DecLen(_)
DecLen(n) == IF n < 10 THEN 1 ELSE 1 + DecLen(n \div 10)

-----------------------------------------------------------------------------
(* LangchainRAG.build_context -- the context budget assembler *)

TicketsBannerLen == 27     \* len("=== HISTORICAL TICKETS ===\n")
GuidesBannerLen == 23      \* len("=== PRODUCT GUIDES ===\n")
EllipsisLen == 3           \* len("...")
ItemTailLen == 2           \* len("\n\n")
TruncSlack == 10           \* remaining = ... - len(header) - 10
MinUseful == 100           \* if remaining > 100
NoIdLen == 3               \* len("N/A")

\* header = f"[TICKET {i+1}] ID: {ticket_id}" [+ f"\nSubject: {subject}"] + "\n"
TicketHeaderLen(i, t) ==
    8 + DecLen(i) + 6 + t.idlen
      + (IF t.subj > 0 THEN 10 + t.subj ELSE 0) + 1

\* header = f"[GUIDE {i+1}] {guide_title}" [+ f" ({guide_number})"]
\*          [+ f" - {section}"] + "\n"
GuideHeaderLen(i, g) ==
    7 + DecLen(i) + 2 + g.title
      + (IF g.num > 0 THEN 3 + g.num ELSE 0)
      + (IF g.sec > 0 THEN 3 + g.sec ELSE 0) + 1

\* One pass of either for-loop: docs[i..] are offered in rank order.
\* kind is "ticket" or "guide"; hdr(i, d) its header length;
\* maxItems and maxChars the per-section limits.
RECURSIVE ItemLoop(_, _, _, _, _, _, _)
ItemLoop(kind, docs, i, parts, total, maxItems, lim) ==
    IF i > Len(docs) \/ i > maxItems
    THEN [parts |-> parts, total |-> total]
    ELSE IF total >= lim.max_total_chars
    THEN [parts |-> parts, total |-> total]
    ELSE
      LET d == docs[i]
          header == IF kind = "ticket" THEN TicketHeaderLen(i, d)
                                       ELSE GuideHeaderLen(i, d)
          maxChars == IF kind = "ticket" THEN lim.max_ticket_chars
                                         ELSE lim.max_guide_chars
          truncated == IF d.len > maxChars THEN maxChars + EllipsisLen
                                           ELSE d.len
          text == header + truncated + ItemTailLen
      IN IF total + text > lim.max_total_chars
         THEN LET remaining == lim.max_total_chars - total - header - TruncSlack
                  text2 == header + Min(remaining, d.len) + EllipsisLen
                             + ItemTailLen
              IN IF remaining > MinUseful
                 THEN ItemLoop(kind, docs, i + 1,
                               Append(parts, [kind |-> kind, idx |-> i,
                                              len |-> text2, cut |-> TRUE]),
                               total + text2, maxItems, lim)
                 ELSE [parts |-> parts, total |-> total]
         ELSE ItemLoop(kind, docs, i + 1,
                       Append(parts, [kind |-> kind, idx |-> i,
                                      len |-> text, cut |-> FALSE]),
                       total + text, maxItems, lim)

Banner(kind, n) == [kind |-> kind, idx |-> 0, len |-> n, cut |-> FALSE]

\* return "\n".join(parts)
JoinLen(parts) ==
    IF parts = <<>> THEN 0 ELSE SumLen(parts) + (Len(parts) - 1)

build_context(in) ==
    LET t == IF in.tickets_given
             THEN ItemLoop("ticket", in.tickets, 1,
                           <<Banner("tickets_banner", TicketsBannerLen)>>, 0,
                           in.lim.max_tickets, in.lim)
             ELSE [parts |-> <<>>, total |-> 0]
        g == IF in.guides_given /\ t.total < in.lim.max_total_chars
             THEN ItemLoop("guide", in.guides, 1,
                           Append(t.parts,
                                  Banner("guides_banner", GuidesBannerLen)),
                           t.total, in.lim.max_guides, in.lim)
             ELSE t
    IN [done |-> TRUE, parts |-> g.parts, total |-> g.total,
        len |-> JoinLen(g.parts)]

\* Inputs of the assembler
MaxCtxTickets == 2
MaxCtxGuides == 1
DocLens == {0, 120, 20000}
BudgetChoices == {20, 150, 300, 15000}
ItemCapChoices == {100, 1500, 20000}

TicketItems == [len : DocLens, idlen : {NoIdLen}, subj : {0, 30}]
GuideItems == [len : DocLens, title : {12}, num : {0}, sec : {0, 8}]
CtxLimits == [max_ticket_chars : ItemCapChoices, max_guide_chars : {1500},
              max_tickets : {1, 5}, max_guides : {3},
              max_total_chars : BudgetChoices]

CtxNone == [done |-> FALSE, parts |-> <<>>, total |-> 0, len |-> 0]
CtxInIdle == [tickets_given |-> FALSE, tickets |-> <<>>,
              guides_given |-> FALSE, guides |-> <<>>,
              lim |-> [max_ticket_chars |-> 1500, max_guide_chars |-> 1500,
                       max_tickets |-> 5, max_guides |-> 3,
                       max_total_chars |-> 15000]]

CtxInit ==
    /\ ctxIn \in [tickets_given : BOOLEAN,
                  tickets : SeqUpTo(TicketItems, MaxCtxTickets),
                  guides_given : BOOLEAN,
                  guides : SeqUpTo(GuideItems, MaxCtxGuides),
                  lim : CtxLimits]
    /\ (~ctxIn.tickets_given => ctxIn.tickets = <<>>)
    /\ (~ctxIn.guides_given => ctxIn.guides = <<>>)
    /\ ctxOut = CtxNone

CtxIdle == ctxIn = CtxInIdle /\ ctxOut = CtxNone

BuildContext ==
    /\ ~ctxOut.done
    /\ ctxOut' = build_context(ctxIn)
    /\ UNCHANGED ctxIn

-----------------------------------------------------------------------------
(* RAGPipeline._get_cache_key -- strings are sequences of characters *)

MaxQueryLen == 2

Chars == {"A", "a", " ", "_", "3"}
Whitespace == {" ", "\t", "\n"}
Digits == <<"0", "1", "2", "3", "4", "5", "6", "7", "8", "9">>

\* str.lower() on the alphabet of the model
LowerChar(c) == IF c = "A" THEN "a" ELSE IF c = "B" THEN "b" ELSE c
Lower(s) == [i \in 1..Len(s) |-> LowerChar(s[i])]

\* str.strip(): drop leading and trailing whitespace
RECURSIVE LStrip(_)
LStrip(s) == IF s # <<>> /\ Head(s) \in Whitespace THEN LStrip(Tail(s)) ELSE s
RECURSIVE RStrip(_)
RStrip(s) ==
    IF s # <<>> /\ s[Len(s)] \in Whitespace
    THEN RStrip(SubSeq(s, 1, Len(s) - 1)) ELSE s
Strip(s) == RStrip(LStrip(s))

\* str(n) for a non-negative integer
RECURSIVE DecStr(_)
DecStr(n) ==
    IF n < 10 THEN <<Digits[n + 1]>>
    ELSE DecStr(n \div 10) \o <<Digits[(n % 10) + 1]>>

\* cache_input = f"{query.lower().strip()}_{n_tickets}_{n_guides}_{language}"
cache_input(query, n_tickets, n_guides, language) ==
    Strip(Lower(query)) \o <<"_">> \o DecStr(n_tickets) \o <<"_">>
        \o DecStr(n_guides) \o <<"_">> \o language

\* hashlib.md5(...).hexdigest(): the digest is represented by the text it
\* was computed from (MD5 taken as collision-free on the inputs modelled).
md5(s) == [md5_of |-> s]

NoLowerKey(query, n_tickets, n_guides, language) ==
    md5(Strip(query) \o <<"_">> \o DecStr(n_tickets) \o <<"_">>
        \o DecStr(n_guides) \o <<"_">> \o language)

_get_cache_key(query, n_tickets, n_guides, language) ==
    md5(cache_input(query, n_tickets, n_guides, language))

KeyOf(r) == _get_cache_key(r.query, r.n_tickets, r.n_guides, r.language)

Italian == <<"i", "t">>
English == <<"e", "n">>
KeyArgs == [query : SeqUpTo(Chars, MaxQueryLen), n_tickets : {3, 4},
            n_guides : {3}, language : {Italian, English}]

NoKey == md5(<<>>)
KeyInIdle == [a |-> [query |-> <<>>, n_tickets |-> 3, n_guides |-> 3,
                     language |-> Italian],
              b |-> [query |-> <<>>, n_tickets |-> 3, n_guides |-> 3,
                     language |-> Italian]]
KeyOutNone == [done |-> FALSE, ka |-> NoKey, kb |-> NoKey, ka2 |-> NoKey]

KeyInit ==
    /\ keyIn \in [a : KeyArgs, b : KeyArgs]
    /\ keyOut = KeyOutNone

\* language is any text the caller passes: a name, or one holding the
\* separator and a digit
TaggedLanguage == <<"3", "_", "i", "t">>
AnyKeyArgs == [query : SeqUpTo(Chars, MaxQueryLen), n_tickets : {3, 4},
               n_guides : {3}, language : {Italian, English, TaggedLanguage}]

AnyKeyInit ==
    /\ keyIn \in [a : AnyKeyArgs, b : AnyKeyArgs]
    /\ keyOut = KeyOutNone

KeyIdle == keyIn = KeyInIdle /\ keyOut = KeyOutNone

\* key of a, key of b, and the key of a computed a second time
ComputeKeys ==
    /\ ~keyOut.done
    /\ keyOut' = [done |-> TRUE, ka |-> KeyOf(keyIn.a), kb |-> KeyOf(keyIn.b),
                  ka2 |-> KeyOf(keyIn.a)]
    /\ UNCHANGED keyIn


-----------------------------------------------------------------------------
(* RAGPipeline response cache and RAGPipeline.query *)

CacheTTL == 24      \* self._cache_ttl = timedelta(hours=24)
TickStep == 12      \* hours by which the clock advances in one step
MaxNow == 36        \* the clock stops advancing here
MaxDrafts == 3      \* largest num_drafts requested

AnswerText == "answer"             \* text returned by the LLM backend
ErrorText == "Error: Unable to generate response."
Temperatures == <<3, 5, 7, 8, 9>>  \* [0.3, 0.5, 0.7, 0.8, 0.9], in tenths
SingleTemperature == 7             \* temperature=0.7

\* two spellings of one logical query, and a different query
QueryTexts == {<<"A">>, <<"a", " ">>}
OtherText == <<"3">>
Requests == [query : QueryTexts, n_tickets : {3}, n_guides : {3},
             language : {Italian}, stream : BOOLEAN, use_cache : BOOLEAN,
             num_drafts : 1..MaxDrafts]
Keys == {_get_cache_key(q, 3, 3, Italian) : q \in QueryTexts \cup {OtherText}}

\* result dict of a single-draft query (no 'responses' entry)
SinglePayload(req, text) ==
    [query |-> req.query, response |-> text, responses |-> <<>>,
     num_drafts |-> 1]
\* result dict of a multi-draft query
MultiPayload(req, drafts) ==
    [query |-> req.query, response |-> drafts[1].text, responses |-> drafts,
     num_drafts |-> req.num_drafts]
NoPayload == [query |-> <<>>, response |-> "", responses |-> <<>>,
              num_drafts |-> 0]

\* _get_cached_response with the comparison of the age reversed
GetNeverExpires(c, key, t) ==
    IF key \in DOMAIN c
    THEN [hit |-> TRUE, value |-> c[key].response, cache |-> c]
    ELSE [hit |-> FALSE, value |-> NoPayload, cache |-> c]

\* _get_cached_response: the value returned (hit = not None) and the map left
_get_cached_response(c, key, t) ==
    IF key \in DOMAIN c
    THEN IF t - c[key].timestamp < CacheTTL
         THEN [hit |-> TRUE, value |-> c[key].response, cache |-> c]
         ELSE [hit |-> FALSE, value |-> NoPayload,
               cache |-> [k \in DOMAIN c \ {key} |-> c[k]]]
    ELSE [hit |-> FALSE, value |-> NoPayload, cache |-> c]

\* _cache_response keeping the time stamp of an entry it replaces
PutKeepsStamp(c, key, response, t) ==
    [k \in DOMAIN c \cup {key} |->
        IF k = key
        THEN [response |-> response,
              timestamp |-> IF key \in DOMAIN c THEN c[key].timestamp ELSE t]
        ELSE c[k]]

\* _cache_response: the map after self._cache[cache_key] = {...}
_cache_response(c, key, response, t) ==
    [k \in DOMAIN c \cup {key} |->
        IF k = key THEN [response |-> response, timestamp |-> t] ELSE c[k]]

\* generate_response: any exception of the backend is caught and turned
\* into the returned text
generate_response(backend_fails) ==
    IF backend_fails THEN ErrorText ELSE AnswerText

\* the draft loop giving up at the first failed draft
RECURSIVE DraftLoopAbort(_, _, _, _)
DraftLoopAbort(i, n, fails, responses) ==
    IF i >= n \/ (i > 0 /\ fails[i]) THEN responses
    ELSE DraftLoopAbort(i + 1, n, fails,
             Append(responses,
                    [text |-> generate_response(fails[i + 1]),
                     temperature |->
                         Temperatures[Min(i, Len(Temperatures) - 1) + 1],
                     draft_number |-> i + 1]))

\* the for-loop over range(num_drafts); fails[i] says whether the backend
\* raises in the i-th call
RECURSIVE DraftLoop(_, _, _, _)
DraftLoop(i, n, fails, responses) ==
    IF i >= n THEN responses
    ELSE LET draft_num == i + 1
             temperature == Temperatures[Min(i, Len(Temperatures) - 1) + 1]
             text == generate_response(fails[draft_num])
         IN DraftLoop(i + 1, n, fails,
                      Append(responses, [text |-> text,
                                         temperature |-> temperature,
                                         draft_number |-> draft_num]))

\* RAGPipeline.query.  retrieval_ok: db_manager.search_all returns (else it
\* raises and the exception leaves query); fails: the backend's behaviour in
\* each generation call.
query(c, t, req, retrieval_ok, fails) ==
    LET consult == req.use_cache /\ ~req.stream
        cache_key == KeyOf(req)
        got == IF consult THEN _get_cached_response(c, cache_key, t)
               ELSE [hit |-> FALSE, value |-> NoPayload, cache |-> c]
    IN IF consult /\ got.hit
       THEN [outcome |-> "returned", result |-> got.value, cache |-> got.cache,
             from_cache |-> TRUE, stored |-> FALSE]
       ELSE IF ~retrieval_ok
       THEN [outcome |-> "raised", result |-> NoPayload, cache |-> got.cache,
             from_cache |-> FALSE, stored |-> FALSE]
       ELSE LET result ==
                  IF req.num_drafts = 1
                  THEN SinglePayload(req, generate_response(fails[1]))
                  ELSE MultiPayload(req,
                           DraftLoop(0, req.num_drafts, fails, <<>>))
                store == req.use_cache /\ ~req.stream /\ req.num_drafts = 1
            IN [outcome |-> "returned", result |-> result,
                cache |-> IF store
                          THEN _cache_response(got.cache, cache_key, result, t)
                          ELSE got.cache,
                from_cache |-> FALSE, stored |-> store]

EmptyCache == [k \in {} |-> 0]
NoGet == [done |-> FALSE, key |-> NoKey, hit |-> FALSE, value |-> NoPayload,
          at |-> 0]
NoPut == [set |-> FALSE, value |-> NoPayload, time |-> 0]
NoQuery == [done |-> FALSE,
            req |-> [query |-> <<>>, n_tickets |-> 3, n_guides |-> 3,
                     language |-> Italian, stream |-> FALSE,
                     use_cache |-> FALSE, num_drafts |-> 1],
            fails |-> <<>>, outcome |-> "none", result |-> NoPayload,
            from_cache |-> FALSE, stored |-> FALSE]

CacheInit ==
    /\ cache = EmptyCache
    /\ now = 0
    /\ lastGet = NoGet
    /\ lastPut = [k \in Keys |-> NoPut]
    /\ lastQ = NoQuery

CacheIdle == CacheInit

\* time passes
Tick ==
    /\ now + TickStep <= MaxNow
    /\ now' = now + TickStep
    /\ UNCHANGED <<cache, lastGet, lastPut, lastQ>>

\* a direct call of _get_cached_response(key)
CacheGet(key) ==
    LET got == _get_cached_response(cache, key, now)
    IN /\ cache' = got.cache
       /\ lastGet' = [done |-> TRUE, key |-> key, hit |-> got.hit,
                      value |-> got.value, at |-> now]
       /\ UNCHANGED <<now, lastPut, lastQ>>

\* a direct call of _cache_response(key, value)
CachePut(key, value) ==
    /\ cache' = _cache_response(cache, key, value, now)
    /\ lastPut' = [lastPut EXCEPT ![key] =
                      [set |-> TRUE, value |-> value, time |-> now]]
    /\ lastGet' = NoGet
    /\ UNCHANGED <<now, lastQ>>

\* one call of RAGPipeline.query, from entry to return or raise
Query(req, retrieval_ok, fails) ==
    LET q == query(cache, now, req, retrieval_ok, fails)
    IN /\ cache' = q.cache
       /\ lastQ' = [done |-> TRUE, req |-> req, fails |-> fails,
                    outcome |-> q.outcome, result |-> q.result,
                    from_cache |-> q.from_cache, stored |-> q.stored]
       /\ UNCHANGED <<now, lastGet, lastPut>>

PutValues ==
    {SinglePayload([query |-> <<"A">>], AnswerText),
     SinglePayload([query |-> OtherText], AnswerText)}

-----------------------------------------------------------------------------
(* Parallel queries on one pipeline: the statements of                    *)
(* _get_cached_response and _cache_response interleaved.  Each dictionary *)
(* operation is one atomic step.                                          *)

NumThreads == 2
Threads == 1..NumThreads

NoEntry == [response |-> NoPayload, timestamp |-> 0]
ThreadIdle == [pc |-> "idle", key |-> NoKey, cached_data |-> NoEntry,
               hit |-> FALSE, ret |-> NoPayload]

ThrInit ==
    /\ thr = [t \in Threads |-> ThreadIdle]
    /\ everPut = [k \in Keys |-> {}]

ThrIdle == ThrInit

\* a query enters _get_cached_response(key)
GetCall(t, key) ==
    /\ thr[t].pc = "idle"
    /\ thr' = [thr EXCEPT ![t] = [ThreadIdle EXCEPT !.pc = "test",
                                                    !.key = key]]
    /\ UNCHANGED <<cache, now, everPut>>

\* if cache_key in self._cache:
GetTest(t) ==
    /\ thr[t].pc = "test"
    /\ thr' = [thr EXCEPT ![t].pc =
                  IF thr[t].key \in DOMAIN cache THEN "read" ELSE "done"]
    /\ UNCHANGED <<cache, now, everPut>>

\* cached_data = self._cache[cache_key]      (KeyError if the key is gone)
GetRead(t) ==
    /\ thr[t].pc = "read"
    /\ thr' = IF thr[t].key \in DOMAIN cache
              THEN [thr EXCEPT ![t].pc = "check",
                               ![t].cached_data = cache[thr[t].key]]
              ELSE [thr EXCEPT ![t].pc = "raised"]
    /\ UNCHANGED <<cache, now, everPut>>

\* if datetime.now() - cached_data['timestamp'] < self._cache_ttl: return ...
GetCheck(t) ==
    /\ thr[t].pc = "check"
    /\ thr' = IF now - thr[t].cached_data.timestamp < CacheTTL
              THEN [thr EXCEPT ![t].pc = "done", ![t].hit = TRUE,
                               ![t].ret = thr[t].cached_data.response]
              ELSE [thr EXCEPT ![t].pc = "del"]
    /\ UNCHANGED <<cache, now, everPut>>

\* del self._cache[cache_key]; return None   (KeyError if the key is gone)
GetDel(t) ==
    /\ thr[t].pc = "del"
    /\ IF thr[t].key \in DOMAIN cache
       THEN /\ cache' = [k \in DOMAIN cache \ {thr[t].key} |-> cache[k]]
            /\ thr' = [thr EXCEPT ![t].pc = "done"]
       ELSE /\ thr' = [thr EXCEPT ![t].pc = "raised"]
            /\ UNCHANGED cache
    /\ UNCHANGED <<now, everPut>>

\* the call has returned; the thread serves its next query
GetReturn(t) ==
    /\ thr[t].pc = "done"
    /\ thr' = [thr EXCEPT ![t] = ThreadIdle]
    /\ UNCHANGED <<cache, now, everPut>>

\* self._cache[cache_key] = {'response': ..., 'timestamp': datetime.now()}
PutCall(t, key, value) ==
    /\ thr[t].pc = "idle"
    /\ cache' = _cache_response(cache, key, value, now)
    /\ everPut' = [everPut EXCEPT ![key] = @ \cup {value}]
    /\ UNCHANGED <<now, thr>>

ThrTick ==
    /\ now + TickStep <= MaxNow
    /\ now' = now + TickStep
    /\ UNCHANGED <<cache, thr, everPut>>

-----------------------------------------------------------------------------
(* LangchainRAG._hybrid_retrieve -- fusion of dense and sparse candidates.  *)
(* A document id is the sequence of its pieces between underscores, a text  *)
(* is the set of its lower-cased words, an absent metadata value is <<>>    *)
(* and a present one is <<v>>.                                              *)

None == <<>>
Some(v) == <<v>>

T1 == <<"ticket", "1", "", "idx0">>
T3 == <<"v1", "ticket", "3">>
T4 == <<"v1", "ticket", "4">>
T5 == <<"v1", "ticket", "5">>
G1 == <<"7", "", "sec0", "", "chunk0">>
G2 == <<"kb", "guide", "2">>

WeightScale == 100
HYBRID_DENSE_WEIGHT == 65
HYBRID_SPARSE_WEIGHT == 35
LexicalWeight == 20
DefaultSimilarity == 800
One == 1000
MatchScore == 100
ImportantScore == 300

important_terms ==
    {"ppf", "pellicola", "ingiallita", "carteggiatura", "bug", "vetro",
     "parabrezza"}

expansions ==
    [ppf |-> {"pellicola", "film", "protection film", "paint protection",
              "pellicola protettiva"},
     pellicola |-> {"ppf", "film", "protection film", "paint protection"},
     ingiallita |-> {"yellowed", "yellowing", "gialla", "ingiallimento"},
     carteggiatura |-> {"sanding", "sand", "levigare", "levigatura"},
     bug |-> {"insetto", "insetti", "moscerini", "bug remover"},
     insetti |-> {"bug", "bugs", "moscerini", "insect"},
     vetro |-> {"vetri", "glass", "windshield", "parabrezza", "cristallo"},
     parabrezza |-> {"windshield", "vetro", "glass", "windscreen"},
     interni |-> {"interno", "interior", "abitacolo", "cruscotto"},
     lucidatura |-> {"polish", "polishing", "lucidare", "correzione"}]

\* query_words: the set of words of query.lower()
_expand_query_terms(query_words) ==
    query_words \cup
        UNION {expansions[t] : t \in DOMAIN expansions \cap query_words}

_calculate_lexical_score(query_terms, doc_words) ==
    LET matches == Cardinality(query_terms \cap doc_words)
        important_matches ==
            Cardinality((query_terms \cap important_terms) \cap doc_words)
    IN  Min(matches * MatchScore + important_matches * ImportantScore, One)

\* list.sort(key=score, reverse=True): descending and stable
RECURSIVE InsertByScore(_, _)
InsertByScore(x, s) ==
    IF s = <<>> THEN <<x>>
    ELSE IF Head(s).score >= x.score
         THEN <<Head(s)>> \o InsertByScore(x, Tail(s))
         ELSE <<x>> \o s

\* no sort: the candidates stay in the insertion order of the dict
KeepInsertionOrder(s) == s

RECURSIVE SortByScore(_)
SortByScore(s) ==
    IF s = <<>> THEN <<>>
    ELSE InsertByScore(s[Len(s)], SortByScore(SubSeq(s, 1, Len(s) - 1)))

RECURSIVE SeqMax(_)
SeqMax(s) ==
    IF Len(s) = 1 THEN s[1] ELSE Max(s[1], SeqMax(Tail(s)))

\* d.metadata.get("bm25_score", 0.0)
Bm25Of(doc) == IF doc.bm25_score = None THEN 0 ELSE doc.bm25_score[1]

\* the lookup that never finds a key: every assignment adds an entry
CandIndexNever(cands, doc_id) == 0

\* position of doc_id among the keys of the dict `candidates`, 0 if absent
CandIndex(cands, doc_id) ==
    IF \E i \in 1..Len(cands) : cands[i].doc_id = doc_id
    THEN CHOOSE i \in 1..Len(cands) : cands[i].doc_id = doc_id
    ELSE 0

\* candidates[doc_id] = entry: a new key goes last, an old key keeps its place
CandSet(cands, entry) ==
    LET i == CandIndex(cands, entry.doc_id)
    IN  IF i = 0 THEN Append(cands, entry) ELSE [cands EXCEPT ![i] = entry]

DenseSimilarity(doc) ==
    IF doc.distance = None
    THEN IF doc.similarity_score # None THEN doc.similarity_score[1]
         ELSE DefaultSimilarity
    ELSE One - doc.distance[1]

RECURSIVE DenseLoop(_, _, _, _)
DenseLoop(query_terms, dense_docs, i, cands) ==
    IF i > Len(dense_docs) THEN cands
    ELSE LET doc == dense_docs[i]
             doc_id == IF doc.id # None THEN doc.id[1]
                       ELSE IF doc.source_id # None THEN doc.source_id[1]
                       ELSE <<"dense", ToString(i - 1)>>
             entry == [doc_id |-> doc_id, doc |-> doc,
                       dense_score |-> DenseSimilarity(doc),
                       sparse_score |-> 0,
                       lexical_score |->
                           _calculate_lexical_score(query_terms, doc.words)]
         IN  DenseLoop(query_terms, dense_docs, i + 1, CandSet(cands, entry))

\* the sparse loop giving a sparse-only candidate the default similarity
RECURSIVE SparseLoopDefaultDense(_, _, _, _, _)
SparseLoopDefaultDense(query_terms, sparse_docs, max_sparse, i, cands) ==
    IF i > Len(sparse_docs) THEN cands
    ELSE LET doc == sparse_docs[i]
             doc_id == doc.source_id[1]
             normalized_sparse == (Bm25Of(doc) * One) \div max_sparse
             lexical_score ==
                 _calculate_lexical_score(query_terms, doc.words)
             j == CandIndex(cands, doc_id)
             merged ==
                 IF j # 0
                 THEN [cands EXCEPT ![j].sparse_score = normalized_sparse]
                 ELSE Append(cands,
                         [doc_id |-> doc_id, doc |-> doc,
                          dense_score |-> DefaultSimilarity,
                          sparse_score |-> normalized_sparse,
                          lexical_score |-> lexical_score])
         IN  SparseLoopDefaultDense(query_terms, sparse_docs, max_sparse,
                                    i + 1, merged)

RECURSIVE SparseLoop(_, _, _, _, _)
SparseLoop(query_terms, sparse_docs, max_sparse, i, cands) ==
    IF i > Len(sparse_docs) THEN cands
    ELSE LET doc == sparse_docs[i]
             doc_id == IF doc.source_id # None THEN doc.source_id[1]
                       ELSE IF doc.id # None THEN doc.id[1]
                       ELSE <<"sparse", ToString(i - 1)>>
             normalized_sparse == (Bm25Of(doc) * One) \div max_sparse
             lexical_score ==
                 _calculate_lexical_score(query_terms, doc.words)
             j == CandIndex(cands, doc_id)
             merged ==
                 IF j # 0
                 THEN [cands EXCEPT
                         ![j].sparse_score = normalized_sparse,
                         ![j].lexical_score =
                             Max(cands[j].lexical_score, lexical_score)]
                 ELSE Append(cands,
                         [doc_id |-> doc_id, doc |-> doc, dense_score |-> 0,
                          sparse_score |-> normalized_sparse,
                          lexical_score |-> lexical_score])
         IN  SparseLoop(query_terms, sparse_docs, max_sparse, i + 1, merged)

\* the hybrid score taking the distance where the similarity belongs
HybridScoreOfDistance(data, dense_weight, sparse_weight) ==
    dense_weight * (One - data.dense_score)
        + sparse_weight * data.sparse_score
        + LexicalWeight * data.lexical_score

\* hybrid_score in units of 10^-5
HybridScore(data, dense_weight, sparse_weight) ==
    dense_weight * data.dense_score + sparse_weight * data.sparse_score
        + LexicalWeight * data.lexical_score

_hybrid_retrieve(query_words, dense_docs, sparse_docs, top_k, dense_weight, sparse_weight) ==
    LET query_terms == _expand_query_terms(query_words)
        sparse_scores ==
            IF sparse_docs = <<>> THEN <<0>>
            ELSE [i \in 1..Len(sparse_docs) |-> Bm25Of(sparse_docs[i])]
        max_sparse ==
            IF SeqMax(sparse_scores) > 0 THEN SeqMax(sparse_scores) ELSE 1
        candidates ==
            SparseLoop(query_terms, sparse_docs, max_sparse, 1,
                       DenseLoop(query_terms, dense_docs, 1, <<>>))
        scored_docs ==
            [i \in 1..Len(candidates) |->
                [score |-> HybridScore(candidates[i], dense_weight,
                                       sparse_weight),
                 doc_id |-> candidates[i].doc_id,
                 doc |-> candidates[i].doc,
                 dense_score |-> candidates[i].dense_score,
                 sparse_score |-> candidates[i].sparse_score,
                 lexical_score |-> candidates[i].lexical_score]]
        sorted == SortByScore(scored_docs)
    IN  SubSeq(sorted, 1, Min(top_k, Len(sorted)))

\* the text of each document of the corpus, as its set of words
DocText(id) ==
    CASE id = T1 -> {"bug"}
      [] id = T3 -> {"insetti", "olio"}
      [] id = T4 -> {"olio"}
      [] id = T5 -> {"bug", "ppf", "vetro"}
      [] id = G1 -> {"bug", "olio"}
      [] OTHER -> {}

Queries == {{"bug"}, {"olio"}}

\* a Document as the Chroma retriever returns it: metadata id and type
DenseDoc(id, type, m) ==
    [id |-> Some(id), source_id |-> None, type |-> Some(type),
     words |-> DocText(id), distance |-> m.distance,
     similarity_score |-> m.similarity_score, bm25_score |-> None]

\* "_ticket_" in doc_id: a piece with an underscore on both sides
HasInfix(id, word) == \E i \in 2..(Len(id) - 1) : id[i] = word

\* doc_id.startswith("ticket_")
HasPrefix(id, word) == Len(id) >= 2 /\ id[1] = word

Bm25Type(doc_id) ==
    IF HasInfix(doc_id, "ticket") THEN Some("ticket")
    ELSE IF HasInfix(doc_id, "guide") THEN Some("guide_chunk")
    ELSE None

\* a Document as BM25Retriever builds it: bm25_score, source_id, maybe type
SparseDoc(doc_id, score, doc_text) ==
    [id |-> None, source_id |-> Some(doc_id), type |-> Bm25Type(doc_id),
     words |-> doc_text, distance |-> None, similarity_score |-> None,
     bm25_score |-> Some(score)]

MaxFuseDense == 2
MaxFuseSparse == 2

DistinctSeqs(S, n) ==
    {s \in SeqUpTo(S, n) : \A i, j \in 1..Len(s) : i # j => s[i] # s[j]}

FuseIds == {T1, T3, T4}
DenseMeta ==
    {[distance |-> Some(200), similarity_score |-> None],
     [distance |-> Some(500), similarity_score |-> None],
     [distance |-> None, similarity_score |-> Some(500)],
     [distance |-> None, similarity_score |-> None]}
Bm25Scores == {0, 1, 2}
FuseTopK == {1, 50}

\* dense lists are ranked by similarity, sparse lists by BM25 score
FuseDense ==
    LET lists == UNION {
            {[i \in 1..Len(ids) |-> DenseDoc(ids[i], "ticket", ms[i])] :
                ms \in [1..Len(ids) -> DenseMeta]} :
            ids \in DistinctSeqs(FuseIds, MaxFuseDense)}
    IN  {l \in lists : \A i \in 1..(Len(l) - 1) :
            DenseSimilarity(l[i]) >= DenseSimilarity(l[i + 1])}

FuseSparse ==
    LET ids_ok == {id \in FuseIds : Bm25Type(id) = Some("ticket")}
        lists == UNION {
            {[i \in 1..Len(ids) |-> SparseDoc(ids[i], sc[i], DocText(ids[i]))] :
                sc \in [1..Len(ids) -> Bm25Scores]} :
            ids \in DistinctSeqs(ids_ok, MaxFuseSparse)}
    IN  {l \in lists : \A i \in 1..(Len(l) - 1) :
            Bm25Of(l[i]) >= Bm25Of(l[i + 1])}

FuseNone == [done |-> FALSE, docs |-> <<>>]
FuseInIdle == [query |-> {}, dense_docs |-> <<>>, sparse_docs |-> <<>>,
               top_k |-> 0, dense_weight |-> HYBRID_DENSE_WEIGHT,
               sparse_weight |-> HYBRID_SPARSE_WEIGHT]

\* HYBRID_DENSE_WEIGHT / HYBRID_SPARSE_WEIGHT as the environment sets them:
\* the defaults, one channel switched off, and a dense weight above 1
WeightSettings ==
    {[dense |-> HYBRID_DENSE_WEIGHT, sparse |-> HYBRID_SPARSE_WEIGHT],
     [dense |-> 0, sparse |-> 100],
     [dense |-> 100, sparse |-> 0],
     [dense |-> 150, sparse |-> HYBRID_SPARSE_WEIGHT]}

FuseInit ==
    /\ \E w \in WeightSettings :
          fuseIn \in [query : Queries, dense_docs : FuseDense,
                      sparse_docs : FuseSparse, top_k : FuseTopK,
                      dense_weight : {w.dense}, sparse_weight : {w.sparse}]
    /\ fuseOut = FuseNone

FuseIdle == fuseIn = FuseInIdle /\ fuseOut = FuseNone

\* the two-ticket ranking scenario: a ticket near in the embedding space
\* without any query word, and a ticket found by keywords only
RankQueries == {{"bug", "ppf", "vetro"}, {"olio"}}
RankDenseIds == {T1, T4}
RankSparseIds == {T3, T5}
RankDenseMeta ==
    DenseMeta \cup {[distance |-> Some(100), similarity_score |-> None]}

RankDense ==
    LET lists == UNION {
            {[i \in 1..Len(ids) |-> DenseDoc(ids[i], "ticket", ms[i])] :
                ms \in [1..Len(ids) -> RankDenseMeta]} :
            ids \in DistinctSeqs(RankDenseIds, MaxFuseDense)}
    IN  {l \in lists : \A i \in 1..(Len(l) - 1) :
            DenseSimilarity(l[i]) >= DenseSimilarity(l[i + 1])}

RankSparse ==
    LET lists == UNION {
            {[i \in 1..Len(ids) |-> SparseDoc(ids[i], sc[i], DocText(ids[i]))] :
                sc \in [1..Len(ids) -> Bm25Scores]} :
            ids \in DistinctSeqs(RankSparseIds, MaxFuseSparse)}
    IN  {l \in lists : \A i \in 1..(Len(l) - 1) :
            Bm25Of(l[i]) >= Bm25Of(l[i + 1])}

RankInit ==
    /\ fuseIn \in [query : RankQueries, dense_docs : RankDense,
                    sparse_docs : RankSparse, top_k : FuseTopK,
                    dense_weight : {HYBRID_DENSE_WEIGHT},
                    sparse_weight : {HYBRID_SPARSE_WEIGHT}]
    /\ fuseOut = FuseNone

Fuse ==
    /\ ~fuseOut.done
    /\ fuseOut' = [done |-> TRUE,
                   docs |-> _hybrid_retrieve(fuseIn.query, fuseIn.dense_docs,
                               fuseIn.sparse_docs, fuseIn.top_k,
                               fuseIn.dense_weight, fuseIn.sparse_weight)]
    /\ UNCHANGED fuseIn

-----------------------------------------------------------------------------
(* The Chroma collection rag_v2 and the BM25 pickle, as one query sees     *)
(* them.  world.docs lists the stored documents by increasing distance to  *)
(* the query; a dense query reaches the first world.reach of those that    *)
(* match its filter (the n_results nearest of a large corpus).             *)

\* documents are indexed in the order of ingestion: tickets, then guides
IngestOrder == <<T1, T3, T4, G1, G2>>

StoreIds == {T1, T3, G1, G2}
StoredType(id) == IF id \in {T1, T3, T4} THEN "ticket" ELSE "guide_chunk"
Subject(id) == IF id = T1 THEN {"bug"} ELSE {}
DistanceStep == 200
StoreBm25Scores == {0, 2}
StoreQueries == {{"bug"}}
MaxStoreDocs == 3
MaxK == 2

StoredDoc(id, distance) ==
    [id |-> id, type |-> StoredType(id), words |-> DocText(id),
     subject |-> Subject(id), distance |-> distance]

\* the i-th nearest document is at distance i * DistanceStep
StoreContents ==
    {[i \in 1..Len(ids) |-> StoredDoc(ids[i], i * DistanceStep)] :
        ids \in DistinctSeqs(StoreIds, MaxStoreDocs)}

\* the ids of a list of stored documents, in the order of IdOrder
RECURSIVE IndexIds(_, _)
IndexIds(docs, order) ==
    IF order = <<>> THEN <<>>
    ELSE (IF \E i \in 1..Len(docs) : docs[i].id = Head(order)
          THEN <<Head(order)>> ELSE <<>>) \o IndexIds(docs, Tail(order))

\* the pickle {"bm25", "ids", "docs"} with the scores get_scores gives
Bm25Files(docs) ==
    {None} \cup
    (IF docs = <<>> THEN {}
     ELSE {Some([ids |-> ids, scores |-> sc]) :
              sc \in [1..Len(docs) -> StoreBm25Scores],
              ids \in {IndexIds(docs, IngestOrder)}})

Metadata(doc) ==
    [type |-> Some(doc.type), id |-> Some(doc.id), subject |-> doc.subject]

Raised == [raised |-> TRUE, ids |-> <<>>, documents |-> <<>>,
           metadatas |-> <<>>, distances |-> <<>>]

QueryResult(docs) ==
    [raised |-> FALSE,
     ids |-> [i \in 1..Len(docs) |-> docs[i].id],
     documents |-> [i \in 1..Len(docs) |-> docs[i].words],
     metadatas |-> [i \in 1..Len(docs) |-> Metadata(docs[i])],
     distances |-> [i \in 1..Len(docs) |-> docs[i].distance]]

Prefix(s, n) == SubSeq(s, 1, Min(n, Len(s)))

\* the query that answers an unreachable store with an empty result
QueryEmptyWhenDown(w, n_results, where) ==
    IF ~w.up THEN QueryResult(<<>>)
    ELSE IF where # None /\ ~w.filter_ok THEN Raised
    ELSE LET IsType(d) == where = None \/ d.type = where[1]
             near == Prefix(SelectSeq(w.docs, IsType), w.reach)
         IN  QueryResult(Prefix(near, n_results))

\* collection.query(query_embeddings, n_results, where={"type": ...}): it
\* raises when the store cannot be queried (w.up false) and, on a store that
\* rejects metadata filters, whenever a filter is given
coll_query(w, n_results, where) ==
    IF ~w.up \/ (where # None /\ ~w.filter_ok) THEN Raised
    ELSE LET IsType(d) == where = None \/ d.type = where[1]
             near == Prefix(SelectSeq(w.docs, IsType), w.reach)
         IN  QueryResult(Prefix(near, n_results))

\* collection.get(ids=..., where={"type": ...}): no distances
coll_get(w, ids, where) ==
    IF ~w.up \/ ~w.get_filter_ok THEN Raised
    ELSE LET Wanted(d) == d.id \in ids /\ d.type = where
         IN  [QueryResult(SelectSeq(w.docs, Wanted)) EXCEPT !.distances = <<>>]

\* the indices whose metadata has the type, at most `limit` of them
FilteredIndices(metadatas, type, limit) ==
    LET Keep(i) == metadatas[i].type = Some(type)
    IN  Prefix(SelectSeq([i \in 1..Len(metadatas) |-> i], Keep), limit)

Pick(list, indices) ==
    IF list # <<>> THEN [j \in 1..Len(indices) |-> list[indices[j]]]
    ELSE list

\* the fallback without its filter
FallbackUnfiltered(results, type, limit) == results

FilterFallback(results, type, limit) ==
    IF results.ids # <<>>
    THEN LET filtered_indices ==
                 FilteredIndices(results.metadatas, type, limit)
         IN  [raised |-> FALSE,
              ids |-> Pick(results.ids, filtered_indices),
              documents |-> Pick(results.documents, filtered_indices),
              metadatas |-> Pick(results.metadatas, filtered_indices),
              distances |-> Pick(results.distances, filtered_indices)]
    ELSE results

GuideFallbackFactor == 3

search_guides(w, k) ==
    LET results == coll_query(w, k, Some("guide_chunk"))
    IN  IF ~results.raised THEN results
        ELSE FilterFallback(coll_query(w, k * GuideFallbackFactor, None),
                            "guide_chunk", k)

translations ==
    [bug |-> {"insetto", "insetti", "moscerini", "moscerino"},
     insetto |-> {"bug", "insetti", "moscerini"},
     insetti |-> {"bug", "insetto", "moscerini"},
     pronto |-> {"ready", "ready to use"},
     risciacquo |-> {"rinse", "risciacquare", "risciacare"},
     risciacquare |-> {"rinse", "risciacquo"},
     waterless |-> {"senza acqua", "waterless", "senza risciacquo"},
     varius |-> {"varius", "labocosmetica varius"}]

\* VectorDBManager._expand_query_terms, for queries of single words
_expand_query_terms_vdb(query_words) ==
    query_words \cup
        UNION {translations[t] : t \in DOMAIN translations \cap query_words}

CandidateFactor == 10
CandidateFloor == 200
SparseFactor == 3
SparseCap == 500
MissingCap == 150
DummyDistance == 600
HitCap == 15
HitBonus == 250
Bm25Boost == 300
PhraseHit == 5
SubjectHit == 3
ContentHit == 1

important_phrases ==
    {"pronto all'uso", "senza risciacquo", "varius", "maniac line",
     "waterless", "soluzione rapida", "insetti uccelli"}

\* sorted(range(len(scores)), key=lambda i: scores[i], reverse=True)
RankedIndices(scores) ==
    LET sorted == SortByScore([i \in 1..Len(scores) |->
                                  [score |-> scores[i], idx |-> i]])
    IN  [j \in 1..Len(sorted) |-> sorted[j].idx]

LexicalHits(query_terms, subject, content) ==
    PhraseHit * Cardinality(important_phrases \cap (subject \cup content))
    + SubjectHit * Cardinality(query_terms \cap subject)
    + ContentHit * Cardinality((query_terms \ subject) \cap content)

\* zip(docs, metas, dists) stops at the shortest of the three lists
_rerank_tickets_lexical(query_words, results, bm25_ids) ==
    IF results.documents = <<>> THEN results
    ELSE
    LET query_terms == _expand_query_terms_vdb(query_words)
        n == Min(Len(results.documents),
                 Min(Len(results.metadatas), Len(results.distances)))
        scored_items ==
            [i \in 1..n |->
                [score |-> Min(LexicalHits(query_terms,
                                   results.metadatas[i].subject,
                                   results.documents[i]), HitCap) * HitBonus
                           - results.distances[i]
                           + (IF results.ids[i] \in bm25_ids
                              THEN Bm25Boost ELSE 0),
                 idx |-> i]]
        sorted == SortByScore(scored_items)
    IN  [raised |-> FALSE,
         ids |-> [j \in 1..n |-> results.ids[sorted[j].idx]],
         documents |-> [j \in 1..n |-> results.documents[sorted[j].idx]],
         metadatas |-> [j \in 1..n |-> results.metadatas[sorted[j].idx]],
         distances |-> [j \in 1..n |-> results.distances[sorted[j].idx]]]

\* the ticket ids among the best-scored entries of the BM25 index
Bm25CandidateIds(bm25, candidate_k) ==
    IF bm25 = None THEN {}
    ELSE LET top == Prefix(RankedIndices(bm25[1].scores),
                           Min(candidate_k * SparseFactor, SparseCap))
         IN  {bm25[1].ids[top[j]] : j \in
                 {j \in 1..Len(top) : HasPrefix(bm25[1].ids[top[j]], "ticket")}}

\* the ids to fetch: the best MissingCap of them by BM25 score
MissingIds(bm25, missing) ==
    LET InMissing(i) == bm25[1].ids[i] \in missing
        ranked == SelectSeq(RankedIndices(bm25[1].scores), InMissing)
        top == Prefix(ranked, MissingCap)
    IN  {bm25[1].ids[top[j]] : j \in 1..Len(top)}

Extend(list, more) == IF list # <<>> THEN list \o more ELSE more

MergeMissing(semantic_results, missing_results) ==
    IF missing_results.raised \/ missing_results.ids = <<>>
    THEN semantic_results
    ELSE [raised |-> FALSE,
          ids |-> Extend(semantic_results.ids, missing_results.ids),
          documents |->
              Extend(semantic_results.documents, missing_results.documents),
          metadatas |->
              Extend(semantic_results.metadatas, missing_results.metadatas),
          distances |->
              IF semantic_results.distances # <<>>
              THEN semantic_results.distances \o
                   [i \in 1..Len(missing_results.ids) |-> DummyDistance]
              ELSE semantic_results.distances]

Trim(results, k) ==
    [raised |-> FALSE,
     ids |-> Prefix(results.ids, k),
     documents |-> Prefix(results.documents, k),
     metadatas |-> Prefix(results.metadatas, k),
     distances |-> Prefix(results.distances, k)]

search_tickets(w, bm25, k) ==
    LET candidate_k == Max(k * CandidateFactor, CandidateFloor)
        filtered == coll_query(w, candidate_k, Some("ticket"))
        semantic_results ==
            IF ~filtered.raised THEN filtered
            ELSE FilterFallback(coll_query(w, candidate_k * 2, None),
                                "ticket", candidate_k)
        semantic_ids ==
            {semantic_results.ids[i] : i \in 1..Len(semantic_results.ids)}
        bm25_candidate_ids == Bm25CandidateIds(bm25, candidate_k)
        missing == bm25_candidate_ids \ semantic_ids
        merged ==
            IF missing = {} THEN semantic_results
            ELSE MergeMissing(semantic_results,
                     coll_get(w, MissingIds(bm25, missing), "ticket"))
    IN  IF semantic_results.raised THEN Raised
        ELSE IF merged.documents # <<>>
        THEN Trim(_rerank_tickets_lexical(w.query, merged,
                                          bm25_candidate_ids), k)
        ELSE merged

\* --- LangchainRAG ---

TicketsRetrieverK == 300
GeneralRetrieverK == 400
Bm25RetrieverK == 200
FuseFactor == 10
FuseFloor == 50

\* the Documents a Chroma retriever returns: no distance in the metadata
AsDocuments(results) ==
    [i \in 1..Len(results.ids) |->
        DenseDoc(results.ids[i], results.metadatas[i].type[1],
                 [distance |-> None, similarity_score |-> None])]

IdOf(doc) ==
    IF doc.id # None THEN doc.id[1]
    ELSE IF doc.source_id # None THEN doc.source_id[1] ELSE <<>>

\* the cross-encoder is an oracle: the score it gives a document is one of
\* two fixed rankings of the corpus
CeOracles == {"first_ingested", "last_ingested"}
CeScore(oracle, id) ==
    LET pos == CHOOSE i \in 1..Len(IngestOrder) : IngestOrder[i] = id
    IN  IF oracle = "last_ingested" THEN pos ELSE Len(IngestOrder) - pos

\* CrossEncoderRerankerWrapper.__init__: a failed load leaves ce = None
CrossEncoderRerankerWrapper_init(load_ok, oracle) ==
    [ce |-> IF load_ok THEN Some(oracle) ELSE None]

\* reranker_model=None, or a wrapper whose model loaded or failed to load
RerankerChoices ==
    {None} \cup {Some(CrossEncoderRerankerWrapper_init(FALSE, o)) :
                    o \in CeOracles}
           \cup {Some(CrossEncoderRerankerWrapper_init(TRUE, o)) :
                    o \in CeOracles}

\* the rerank that forgets the passthrough and returns the list reversed
RerankReversed(rr, documents, top_k) ==
    Prefix([i \in 1..Len(documents) |->
               documents[Len(documents) + 1 - i]], top_k)

\* CrossEncoderRerankerWrapper.rerank
rerank(rr, documents, top_k) ==
    IF rr.ce = None \/ documents = <<>> THEN Prefix(documents, top_k)
    ELSE LET scored_docs ==
                 SortByScore([i \in 1..Len(documents) |->
                     [score |-> CeScore(rr.ce[1], IdOf(documents[i].doc)),
                      idx |-> i]])
         IN  Prefix([j \in 1..Len(scored_docs) |->
                        documents[scored_docs[j].idx]], top_k)

RerankFactor == 3

\* LangchainRAG.retrieve: rerank if available
RerankStage(r, candidates, top_k) ==
    IF r.reranker # None
    THEN rerank(r.reranker[1], candidates, top_k * RerankFactor)
    ELSE candidates

\* LangchainRAG.__init__: the filter probe, the BM25 load, the reranker
LangchainRAG_init(w, reranker) ==
    [filtered |-> ~coll_query(w, TicketsRetrieverK, Some("ticket")).raised,
     bm25_retriever |->
        IF w.bm25 # None /\ w.bm25[1].ids # <<>> THEN w.bm25 ELSE None,
     reranker |-> reranker]

\* BM25Retriever._get_relevant_documents
BM25Retriever_get(bm25) ==
    LET ranked_indices == Prefix(RankedIndices(bm25.scores), Bm25RetrieverK)
    IN  [j \in 1..Len(ranked_indices) |->
            SparseDoc(bm25.ids[ranked_indices[j]],
                      bm25.scores[ranked_indices[j]],
                      DocText(bm25.ids[ranked_indices[j]]))]

_filter_by_type(documents, doc_type) ==
    LET HasType(d) == d.type = Some(doc_type)
    IN  SelectSeq(documents, HasType)

\* the sparse stage without its guard: None has no get_relevant_documents
SparseUnguarded(r) ==
    IF r.bm25_retriever # None
    THEN [raised |-> FALSE, docs |-> BM25Retriever_get(r.bm25_retriever[1])]
    ELSE [raised |-> TRUE, docs |-> <<>>]

\* the sparse candidates: none without a BM25 retriever
SparseStage(r) ==
    IF r.bm25_retriever # None
    THEN [raised |-> FALSE, docs |-> BM25Retriever_get(r.bm25_retriever[1])]
    ELSE [raised |-> FALSE, docs |-> <<>>]

\* the dense candidates of both types
DenseStage(w, r) ==
    IF r.filtered
    THEN LET t == coll_query(w, TicketsRetrieverK, Some("ticket"))
             g == coll_query(w, TicketsRetrieverK, Some("guide_chunk"))
         IN  [raised |-> t.raised \/ g.raised,
              tickets |-> AsDocuments(t), guides |-> AsDocuments(g)]
    ELSE LET general == coll_query(w, GeneralRetrieverK, None)
             all_dense == AsDocuments(general)
         IN  [raised |-> general.raised,
              tickets |-> _filter_by_type(all_dense, "ticket"),
              guides |-> _filter_by_type(all_dense, "guide_chunk")]

\* distance = 1.0 - hybrid_score, in units of 10^-5
_build_chroma_format(scored) ==
    [raised |-> FALSE,
     ids |-> [i \in 1..Len(scored) |-> IdOf(scored[i].doc)],
     documents |-> [i \in 1..Len(scored) |-> scored[i].doc.words],
     metadatas |-> [i \in 1..Len(scored) |->
                      [type |-> scored[i].doc.type, id |-> scored[i].doc.id,
                       source_id |-> scored[i].doc.source_id,
                       hybrid_score |-> scored[i].score,
                       lexical_score |-> scored[i].lexical_score]],
     distances |-> [i \in 1..Len(scored) |->
                      One * WeightScale - scored[i].score]]

NoResults == [raised |-> FALSE, ids |-> <<>>, documents |-> <<>>,
              metadatas |-> <<>>, distances |-> <<>>]

\* the fused candidate lists as they stand before the rerank
NoFused == [tickets |-> <<>>, guides |-> <<>>]

retrieve(w, r, top_k_tickets, top_k_guides) ==
    LET dense == DenseStage(w, r)
        sparse == SparseStage(r)
        ticket_candidates ==
            _hybrid_retrieve(w.query, dense.tickets,
                _filter_by_type(sparse.docs, "ticket"),
                Max(top_k_tickets * FuseFactor, FuseFloor),
                HYBRID_DENSE_WEIGHT, HYBRID_SPARSE_WEIGHT)
        guide_candidates ==
            _hybrid_retrieve(w.query, dense.guides,
                _filter_by_type(sparse.docs, "guide_chunk"),
                Max(top_k_guides * FuseFactor, FuseFloor),
                HYBRID_DENSE_WEIGHT, HYBRID_SPARSE_WEIGHT)
    IN  IF dense.raised \/ sparse.raised
        THEN [raised |-> TRUE, tickets |-> NoResults, guides |-> NoResults,
              fused |-> NoFused]
        ELSE [raised |-> FALSE,
              tickets |-> _build_chroma_format(Prefix(
                  RerankStage(r, ticket_candidates, top_k_tickets),
                  top_k_tickets)),
              guides |-> _build_chroma_format(Prefix(
                  RerankStage(r, guide_candidates, top_k_guides),
                  top_k_guides)),
              fused |-> [tickets |-> ticket_candidates,
                         guides |-> guide_candidates]]

\* --- the state machine over one store ---

NoCall == [op |-> "none", k |-> 0, kg |-> 0, raised |-> FALSE,
           tickets |-> NoResults, guides |-> NoResults, fused |-> NoFused]

\* the stores over the given contents, all of them answering queries
Worlds(contents) ==
    UNION {[docs : {docs}, reach : 0..Len(docs), query : StoreQueries,
            filter_ok : BOOLEAN, get_filter_ok : BOOLEAN, up : {TRUE},
            bm25 : Bm25Files(docs)] : docs \in contents}

StoreInit ==
    /\ world \in Worlds(StoreContents)
    /\ world.filter_ok => world.get_filter_ok
    /\ rag = None
    /\ vdb = None
    /\ out = NoCall

\* LangchainRAG(...); a process builds one of the two front ends
RagConstruct(reranker) ==
    /\ rag = None /\ vdb = None
    /\ rag' = Some(LangchainRAG_init(world, reranker))
    /\ UNCHANGED <<world, vdb, out>>

\* VectorDBManager(): the BM25 index is loaded if the file exists
VdbConstruct ==
    /\ vdb = None /\ rag = None
    /\ vdb' = Some([bm25_index |-> world.bm25])
    /\ UNCHANGED <<world, rag, out>>

Retrieve(top_k_tickets, top_k_guides) ==
    /\ rag # None
    /\ LET res == retrieve(world, rag[1], top_k_tickets, top_k_guides)
       IN  out' = [op |-> "retrieve", k |-> top_k_tickets,
                   kg |-> top_k_guides, raised |-> res.raised,
                   tickets |-> res.tickets, guides |-> res.guides,
                   fused |-> res.fused]
    /\ UNCHANGED <<world, rag, vdb>>

SearchTickets(k) ==
    /\ vdb # None
    /\ LET res == search_tickets(world, vdb[1].bm25_index, k)
       IN  out' = [op |-> "search_tickets", k |-> k, kg |-> 0,
                   raised |-> res.raised,
                   tickets |-> res, guides |-> NoResults,
                   fused |-> NoFused]
    /\ UNCHANGED <<world, rag, vdb>>

SearchGuides(k) ==
    /\ vdb # None
    /\ LET res == search_guides(world, k)
       IN  out' = [op |-> "search_guides", k |-> 0, kg |-> k,
                   raised |-> res.raised,
                   tickets |-> NoResults, guides |-> res,
                   fused |-> NoFused]
    /\ UNCHANGED <<world, rag, vdb>>

\* LangchainRAG.answer: retrieve, build the context, call the LLM; an
\* exception of either call leaves answer
answer(w, r, top_k_tickets, top_k_guides, llm_ok) ==
    LET retrieved == retrieve(w, r, top_k_tickets, top_k_guides)
    IN  IF retrieved.raised \/ ~llm_ok
        THEN [raised |-> TRUE, tickets |-> NoResults, guides |-> NoResults,
              fused |-> NoFused]
        ELSE retrieved

Answer(top_k_tickets, top_k_guides, llm_ok) ==
    /\ rag # None
    /\ \E res \in {answer(world, rag[1], top_k_tickets, top_k_guides, llm_ok)} :
          out' = [op |-> "answer", k |-> top_k_tickets,
                  kg |-> top_k_guides, raised |-> res.raised,
                  tickets |-> res.tickets, guides |-> res.guides,
                  fused |-> res.fused]
    /\ UNCHANGED <<world, rag, vdb>>

\* the store stops answering queries
StoreDown ==
    /\ world.up
    /\ world' = [world EXCEPT !.up = FALSE]
    /\ UNCHANGED <<rag, vdb, out>>

MaxOutageDocs == 1
OutageContents == {docs \in StoreContents : Len(docs) <= MaxOutageDocs}
OutageRequests == {req \in Requests : req.num_drafts = 1}

OutageInit ==
    /\ world \in Worlds(OutageContents)
    /\ world.filter_ok => world.get_filter_ok
    /\ rag = None
    /\ vdb = None
    /\ out = NoCall

StoreIdle == world = None /\ rag = None /\ vdb = None /\ out = NoCall

-----------------------------------------------------------------------------
(* RAGPipeline.check_provider_status and its legacy alias                  *)
(* check_ollama_status.  A status dictionary is a record: its keys are the *)
(* record's fields.  Model names are sequences of characters.              *)

ModelNames == {<<"m">>, <<"m", ":", "l">>}
RequestedModels == {<<"m">>, <<"q">>}
MaxModels == 2

\* one element of ollama.list()'s models: a dict with a 'name' key, a
\* 'model' key, both or neither, or an object that is no dict
ModelEntries ==
    {[kind |-> "dict", name |-> n, model |-> m] :
        n \in {None} \cup {Some(x) : x \in ModelNames \cup {<<>>}},
        m \in {None} \cup {Some(x) : x \in ModelNames}}
    \cup {[kind |-> "object", name |-> None, model |-> None]}

\* what ollama.list() does: a dict with 'models', a bare list, a value of
\* another shape, or an exception
Listings ==
    {[shape |-> "raises", models |-> <<>>], [shape |-> "other", models |-> <<>>]}
    \cup [shape : {"dict_models", "list"},
          models : UNION {[1..n -> ModelEntries] : n \in 0..MaxModels}]

\* what requests.post does for the Groq test request
PostReplies == {"200", "401", "raises"}

\* m.get('name', m.get('model', ''))
EntryName(e) ==
    IF e.name # None THEN e.name[1]
    ELSE IF e.model # None THEN e.model[1] ELSE <<>>

\* self.model in m
Contains(m, model) ==
    \E i \in 0..(Len(m) - Len(model)) : SubSeq(m, i + 1, i + Len(model)) = model

check_provider_status(p) ==
    IF p.provider = "grok"
    THEN IF p.post = "raises"
         THEN [provider |-> "grok", available |-> FALSE, error |-> "exception"]
         ELSE IF p.post = "200"
         THEN [provider |-> "grok", available |-> TRUE, model |-> p.model,
               base_url |-> "base_url"]
         ELSE [provider |-> "grok", available |-> FALSE, error |-> p.post]
    ELSE IF p.listing.shape = "raises"
         THEN [provider |-> "ollama", available |-> FALSE,
               error |-> "exception"]
         ELSE LET models_list ==
                      IF p.listing.shape \in {"dict_models", "list"}
                      THEN p.listing.models ELSE <<>>
                  Named(e) == e.kind = "dict" /\ EntryName(e) # <<>>
                  named == SelectSeq(models_list, Named)
                  available_models ==
                      [i \in 1..Len(named) |-> EntryName(named[i])]
              IN  [provider |-> "ollama", available |-> TRUE,
                   model_available |->
                       \E i \in 1..Len(available_models) :
                           Contains(available_models[i], p.model),
                   available_models |-> available_models,
                   requested_model |-> p.model]

\* the legacy method redirects to check_provider_status
check_ollama_status(p) == check_provider_status(p)

\* a pipeline on Ollama with any listing, or on Groq with any reply
StatInit ==
    /\ statIn \in
          [provider : {"ollama"}, model : RequestedModels,
           listing : Listings, post : {"200"}]
          \cup [provider : {"grok"}, model : RequestedModels,
                listing : {[shape |-> "other", models |-> <<>>]},
                post : PostReplies]
    /\ statOut = None

CheckStatus ==
    /\ statOut = None
    /\ statOut' = Some(check_ollama_status(statIn))
    /\ UNCHANGED statIn

StatIdle == statIn = None /\ statOut = None

-----------------------------------------------------------------------------
(* The BM25 query tokens of VectorDBManager.search_tickets.  A word is a   *)
(* sequence of segments: runs of alphanumeric characters and single        *)
(* characters that are not alphanumeric.  <<"l", "'", "auto">> is l'auto.  *)

Punctuation == {"'", ",", "!", "-"}

\* str.lower() on the segments of the model
LowerSegment(s) == IF s = "BUG" THEN "bug" ELSE s
LowerWord(word) == [i \in 1..Len(word) |-> LowerSegment(word[i])]

\* the word as written
RECURSIVE Raw(_)
Raw(word) == IF word = <<>> THEN "" ELSE Head(word) \o Raw(Tail(word))

\* ''.join(c for c in word if c.isalnum())
RECURSIVE Clean(_)
Clean(word) ==
    IF word = <<>> THEN ""
    ELSE (IF Head(word) \in Punctuation THEN "" ELSE Head(word))
         \o Clean(Tail(word))

important_terms_bm25 ==
    {"bug", "remover", "insetto", "insetti", "moscerini", "uccelli",
     "pronto", "uso", "risciacquo", "risciacquare", "senza", "varius",
     "maniac", "line", "waterless", "soluzione", "rapida", "localizzata",
     "pulitore", "rimuovi"}

stopwords ==
    {"ti", "chiedo", "se", "avete", "in", "commercio", "un", "dover",
     "l'auto", "ogni", "volta", "che", "viene", "utilizzato", "oppure",
     "prodotto", "consigliato", "mi", "consente", "di", "effettuare", "tale",
     "operazione", "the", "a", "an", "is", "are", "was", "were", "be", "been",
     "have", "has", "had", "do", "does", "did", "will", "would", "could",
     "should", "to", "of", "for", "with", "on", "at", "by", "from", "as",
     "into", "onto", "all'uso"}

\* a term of words without punctuation
Plain(names) == [i \in 1..Len(names) |-> <<names[i]>>]
AllUso == <<"all", "'", "uso">>

\* the translation table: the words of each key and its terms
translation_terms ==
    {[key |-> <<"bug">>,
      terms |-> {Plain(<<"insetto">>), Plain(<<"insetti">>),
                 Plain(<<"moscerini">>), Plain(<<"moscerino">>)}],
     [key |-> <<"bug", "remover">>,
      terms |-> {Plain(<<"rimuovi", "insetti">>),
                 Plain(<<"rimuovi", "moscerini">>),
                 Plain(<<"pulitore", "insetti">>)}],
     [key |-> <<"insetto">>,
      terms |-> {Plain(<<"bug">>), Plain(<<"insetti">>),
                 Plain(<<"moscerini">>)}],
     [key |-> <<"insetti">>,
      terms |-> {Plain(<<"bug">>), Plain(<<"insetto">>),
                 Plain(<<"moscerini">>)}],
     [key |-> <<"ready", "to", "use">>,
      terms |-> {<<<<"pronto">>, AllUso>>, Plain(<<"pronto", "uso">>),
                 Plain(<<"pronto">>)}],
     [key |-> <<"pronto", "all'uso">>,
      terms |-> {Plain(<<"ready", "to", "use">>),
                 Plain(<<"pronto", "uso">>)}],
     [key |-> <<"pronto">>,
      terms |-> {Plain(<<"ready">>), Plain(<<"ready", "to", "use">>)}],
     [key |-> <<"risciacquo">>,
      terms |-> {Plain(<<"rinse">>), Plain(<<"risciacquare">>),
                 Plain(<<"risciacare">>)}],
     [key |-> <<"risciacquare">>,
      terms |-> {Plain(<<"rinse">>), Plain(<<"risciacquo">>)}],
     [key |-> <<"senza", "risciacquo">>,
      terms |-> {Plain(<<"no", "rinse">>), Plain(<<"without", "rinse">>),
                 Plain(<<"non", "risciacquare">>)}],
     [key |-> <<"waterless">>,
      terms |-> {Plain(<<"senza", "acqua">>), Plain(<<"waterless">>),
                 Plain(<<"senza", "risciacquo">>)}],
     [key |-> <<"varius">>,
      terms |-> {Plain(<<"varius">>), Plain(<<"labocosmetica", "varius">>)}],
     [key |-> <<"quick", "detailer">>,
      terms |-> {Plain(<<"quick", "detailer">>),
                 Plain(<<"dettagliante", "rapido">>)}]}

\* term in query_lower: for the words of TokWords, none of which contains a
\* key word without being it, the key is a substring of the query exactly
\* when its words are consecutive words of the query
KeyInQuery(key, words) ==
    \E i \in 0..(Len(words) - Len(key)) :
        \A j \in 1..Len(key) : Raw(words[i + j]) = key[j]

\* VectorDBManager._expand_query_terms: the words of the query, each a term
\* of one word, and the terms of every key found in the query
expanded_terms(words) ==
    {<<words[i]>> : i \in 1..Len(words)}
    \cup UNION {e.terms : e \in {x \in translation_terms :
                                    KeyInQuery(x.key, words)}}

\* word_clean in important_terms
\*     or (len(word_clean) >= 4 and word_clean not in stopwords)
KeepToken(word_clean) ==
    \/ word_clean \in important_terms_bm25
    \/ Len(word_clean) >= 4 /\ word_clean \notin stopwords

\* the tokens of a list of words, duplicates dropped, order kept
RECURSIVE TokensOf(_, _)
TokensOf(words, seen) ==
    IF words = <<>> THEN seen
    ELSE LET word_clean == Clean(Head(words))
         IN  TokensOf(Tail(words),
                 IF KeepToken(word_clean)
                    /\ \A i \in 1..Len(seen) : seen[i] # word_clean
                 THEN Append(seen, word_clean) ELSE seen)

\* query_tokens: the tokens of the query's words in order, then those of
\* the expanded terms, which a set yields in no fixed order: they are kept
\* as a set
query_tokens(query_words) ==
    LET words == [i \in 1..Len(query_words) |-> LowerWord(query_words[i])]
        first == TokensOf(words, <<>>)
        terms == expanded_terms(words)
        rest == {Clean(t[i]) : <<t, i>> \in
                    {x \in terms \X (1..3) : x[2] <= Len(x[1])}}
    IN  [done |-> TRUE, first |-> first,
         tokens |-> {first[i] : i \in 1..Len(first)}
                    \cup {c \in rest : KeepToken(c)}]

MaxTokWords == 2
TokWords ==
    {<<"bug">>, <<"BUG">>, <<"uso">>, <<"con">>, <<"auto">>, <<"di">>,
     <<"with">>, <<"with", ",">>, <<"ok", "!", "!">>, <<"-">>,
     <<"l", "'", "auto">>, <<"pronto">>, AllUso}

TokNone == [done |-> FALSE, first |-> <<>>, tokens |-> {}]

TokInit ==
    /\ tokIn \in SeqUpTo(TokWords, MaxTokWords)
    /\ tokOut = TokNone

SelectTokens ==
    /\ ~tokOut.done
    /\ tokOut' = query_tokens(tokIn)
    /\ UNCHANGED tokIn

TokIdle == tokIn = <<>> /\ tokOut = TokNone

-----------------------------------------------------------------------------
(* The BM25 candidates of VectorDBManager.search_tickets, on an index of   *)
(* any size.  The i-th entry of the index is ticket i or a chunk of guide  *)
(* i, named as the index builder names them.                               *)

Numerals == <<"1", "2", "3", "4", "5", "6", "7", "8">>
TicketId(i) == <<"ticket", Numerals[i], "", "idx0">>
GuideChunkId(i) == <<Numerals[i], "", "sec0", "", "chunk0">>

MaxIndexDocs == 5
MaxSparseK == 2
IndexScores == {0, 2}

\* candidate_k = max(k * 10, 200)
CandidateK(k) == Max(k * CandidateFactor, CandidateFloor)

Bm25Indexes ==
    UNION {{[ids |-> [i \in 1..n |-> IF tickets[i] THEN TicketId(i) ELSE GuideChunkId(i)], scores |-> sc] :
               tickets \in [1..n -> BOOLEAN], sc \in [1..n -> IndexScores]} :
           n \in 0..MaxIndexDocs}

SparseNone == [done |-> FALSE, ids |-> {}]

SparseInit ==
    /\ spIn \in [k : 1..MaxSparseK, bm25 : Bm25Indexes]
    /\ spOut = SparseNone

SparseCandidates ==
    /\ ~spOut.done
    /\ spOut' = [done |-> TRUE, ids |-> Bm25CandidateIds(Some(spIn.bm25), CandidateK(spIn.k))]
    /\ UNCHANGED spIn

SparseIdle == spIn = [k |-> 1, bm25 |-> [ids |-> <<>>, scores |-> <<>>]] /\ spOut = SparseNone

-----------------------------------------------------------------------------
(* The draft loop of RAGPipeline.query for any num_drafts the method is     *)
(* given: the method checks no upper limit.                                 *)

MaxScheduleDrafts == 6

DraftsNone == [done |-> FALSE, responses |-> <<>>]

DraftsInit ==
    /\ drIn \in [num_drafts : 2..MaxScheduleDrafts, fails : [1..MaxScheduleDrafts -> BOOLEAN]]
    /\ drOut = DraftsNone

GenerateDrafts ==
    /\ ~drOut.done
    /\ drOut' = [done |-> TRUE, responses |-> DraftLoop(0, drIn.num_drafts, drIn.fails, <<>>)]
    /\ UNCHANGED drIn

DraftsIdle == drIn = [num_drafts |-> 2, fails |-> [i \in 1..MaxScheduleDrafts |-> FALSE]] /\ drOut = DraftsNone

-----------------------------------------------------------------------------
(* Ingestion: VectorDBManager.add_tickets and add_guides, the full rebuild  *)
(* (rebuild_vector_db_v2.py) and the incremental updates                    *)
(* (update_tickets_only.py, update_guides_incremental.py).  A JSON object   *)
(* or a dict is a function on its keys; a JSON null is None and any other   *)
(* value v is Some(v).  A collection is a function from its ids to the      *)
(* document and the metadata stored under each.                             *)

\* d.get(key, default)
Get(d, key, default) == IF key \in DOMAIN d THEN d[key] ELSE default
\* value or default, the default being the empty value of its type
OrElse(value, default) ==
    IF value = None \/ value = default THEN default ELSE value

\* sanitize_metadata of rebuild_vector_db_v2.py and update_tickets_only.py
sanitize_metadata(md) ==
    [k \in DOMAIN md |-> IF md[k] = None THEN Some("") ELSE md[k]]
\* sanitize_metadata of update_guides_incremental.py
sanitize_metadata_guides(md) ==
    [k \in DOMAIN md |->
        IF md[k] = None
        THEN (IF k \in {"section_index", "chunk_index"} THEN Some(0) ELSE Some(""))
        ELSE md[k]]
\* the metadata written as built, None included
Unsanitized(md) == md

TicketUid(ticket_id) == <<"ticket", ticket_id>>
TicketChunkUid(ticket_id) == <<"ticket", ticket_id, "", "idx0">>
ChunkId(guide_number) == <<guide_number, "", "sec0", "", "chunk0">>

\* a record of processed_tickets.json; priority is absent, null or a text
TicketRecord(ticket_id, priority, text) ==
    LET base == [k \in {"ticket_id", "searchable_text", "subject", "status", "created_at"} |->
                    CASE k = "ticket_id" -> Some(ticket_id)
                      [] k = "searchable_text" -> Some(text)
                      [] k = "subject" -> Some("oggetto")
                      [] k = "status" -> Some("solved")
                      [] OTHER -> Some("2024")]
    IN  IF priority = "absent" THEN base
        ELSE base @@ ("priority" :> (IF priority = "null" THEN None ELSE Some(priority)))

\* a record of guides_chunks.json; guide_title is null or a text
ChunkRecord(guide_number, guide_title, text) ==
    [k \in {"chunk_id", "chunk_text", "guide_number", "guide_title", "section_index", "chunk_index", "url"} |->
        CASE k = "chunk_id" -> Some(ChunkId(guide_number))
          [] k = "chunk_text" -> Some(text)
          [] k = "guide_number" -> Some(guide_number)
          [] k = "guide_title" -> guide_title
          [] k = "url" -> Some("http")
          [] OTHER -> Some(0)]

TicketFiles ==
    {first \o second :
        first \in {<<>>} \cup {<<TicketRecord("1", p, "bug")>> : p \in {"absent", "null", "high"}}
                         \cup {<<TicketRecord("1", "high", "")>>},
        second \in {<<>>, <<TicketRecord("2", "high", "olio")>>}}

GuideFiles ==
    {first \o <<ChunkRecord("8", Some("titolo"), "cera")>> :
        first \in {<<>>} \cup {<<ChunkRecord("7", t, x)>> : t \in {None, Some("titolo")}, x \in {"bug", "pasta"}}}

\* the metadata of one ticket in add_tickets
TicketMeta(t) ==
    [k \in {"ticket_id", "subject", "status", "priority", "created_at"} |->
        IF k = "ticket_id" THEN Get(t, k, None) ELSE Get(t, k, Some(""))]

\* the metadata of one ticket in update_tickets_only.py
TicketMetaUpdate(t) ==
    [k \in {"ticket_id", "subject", "status", "priority", "created_at"} |->
        IF k = "ticket_id" THEN Get(t, k, None) ELSE OrElse(Get(t, k, None), Some(""))]

\* the metadata of one ticket chunk in the full rebuild
TicketMetaRebuild(t) ==
    [k \in {"type", "orig_ticket_id", "chunk_index", "subject", "status", "priority", "created_at"} |->
        CASE k = "type" -> Some("ticket")
          [] k = "orig_ticket_id" -> Get(t, "ticket_id", None)
          [] k = "chunk_index" -> Some(0)
          [] OTHER -> Get(t, k, Some(""))]

\* the metadata of one chunk in add_guides
GuideMeta(c) ==
    [k \in {"guide_number", "guide_title", "section_index", "chunk_index", "url"} |-> Get(c, k, Some(""))]

\* the metadata of one chunk in update_guides_incremental.py
GuideMetaUpdate(c) ==
    [k \in {"guide_number", "guide_title", "section_index", "chunk_index", "url"} |->
        IF k \in {"section_index", "chunk_index"} THEN OrElse(Get(c, k, None), Some(0))
        ELSE OrElse(Get(c, k, None), Some(""))]

\* the metadata of one chunk in the full rebuild
GuideMetaRebuild(c) ==
    [k \in {"type", "guide_number", "guide_title", "section_index", "chunk_index", "url"} |->
        IF k = "type" THEN Some("guide_chunk") ELSE Get(c, k, None)]

\* the entries built from the records of a file that pass Keep
Entries(records, Keep(_), Id(_), Text(_), Meta(_)) ==
    LET kept == {i \in 1..Len(records) : Keep(records[i])}
        ids == {Id(records[i]) : i \in kept}
    IN  [id \in ids |->
            LET i == CHOOSE i \in kept : Id(records[i]) = id
            IN  [document |-> Text(records[i]), metadata |-> Meta(records[i])]]

\* the ids of the kept records, in the order of the file
IdList(records, Keep(_), Id(_)) ==
    LET kept == SelectSeq(records, Keep)
    IN  [i \in 1..Len(kept) |-> Id(kept[i])]

HasNone(entries) ==
    \E id \in DOMAIN entries : \E k \in DOMAIN entries[id].metadata : entries[id].metadata[k] = None

EmptyColl == [id \in {} |-> [document |-> "", metadata |-> <<>>]]

\* collection.add: a store that takes no None rejects the whole batch;
\* an id already stored keeps its entry
coll_add(coll, entries, accepts_null) ==
    IF HasNone(entries) /\ ~accepts_null
    THEN [raised |-> TRUE, coll |-> coll]
    ELSE [raised |-> FALSE,
          coll |-> [id \in DOMAIN coll \cup DOMAIN entries |->
                       IF id \in DOMAIN coll THEN coll[id] ELSE entries[id]]]

\* collection.delete(ids)
coll_delete(coll, ids) == [id \in DOMAIN coll \ ids |-> coll[id]]

TicketText(t) == Get(t, "searchable_text", Some(""))[1]
ChunkText(c) == Get(c, "chunk_text", Some(""))[1]
HasTicketText(t) == TicketText(t) # ""
HasChunkText(c) == ChunkText(c) # ""
AddTicketUid(t) == TicketUid(Get(t, "ticket_id", None)[1])
RebuildTicketUid(t) == TicketChunkUid(t["ticket_id"][1])
GivenChunkId(c) == c["chunk_id"][1]

\* VectorDBManager.add_tickets on a manager constructed over the store
add_tickets(st, tickets) ==
    LET Meta(t) == Unsanitized(TicketMeta(t))
        entries == Entries(tickets, HasTicketText, AddTicketUid, TicketText, Meta)
        added == coll_add(st.tickets, entries, st.accepts_null)
    IN  IF DOMAIN entries = {} THEN [raised |-> FALSE, st |-> st]
        ELSE IF st.rag_v2 # None THEN [raised |-> TRUE, st |-> st]
        ELSE [raised |-> added.raised, st |-> [st EXCEPT !.tickets = added.coll]]

\* VectorDBManager.add_guides
add_guides(st, chunks) ==
    LET Keep(c) == Get(c, "chunk_id", None) \notin {None, Some(<<>>)} /\ HasChunkText(c)
        Meta(c) == Unsanitized(GuideMeta(c))
        entries == Entries(chunks, Keep, GivenChunkId, ChunkText, Meta)
        added == coll_add(st.guides, entries, st.accepts_null)
    IN  IF DOMAIN entries = {} THEN [raised |-> FALSE, st |-> st]
        ELSE IF st.rag_v2 # None THEN [raised |-> TRUE, st |-> st]
        ELSE [raised |-> added.raised, st |-> [st EXCEPT !.guides = added.coll]]

\* rebuild_vector_db_v2.main: rag_v2 dropped and recreated, BM25 pickle
\* written as a dict over the same ids
rebuild_v2(st, tickets, chunks) ==
    LET TMeta(t) == sanitize_metadata(TicketMetaRebuild(t))
                        @@ ("id" :> Some(RebuildTicketUid(t)))
        GMeta(c) == sanitize_metadata(GuideMetaRebuild(c)) @@ ("id" :> Some(GivenChunkId(c)))
        ticket_entries == Entries(tickets, HasTicketText, RebuildTicketUid, TicketText, TMeta)
        guide_entries == Entries(chunks, HasChunkText, GivenChunkId, ChunkText, GMeta)
        bm25_ids == IdList(tickets, HasTicketText, RebuildTicketUid)
                    \o IdList(chunks, HasChunkText, GivenChunkId)
    IN  [raised |-> FALSE,
         st |-> [st EXCEPT !.rag_v2 = Some(ticket_entries @@ guide_entries),
                           !.bm25 = Some([format |-> "dict", ids |-> bm25_ids])]]

\* update_bm25_index: a fresh index, or the stored ids followed by the new
update_bm25_index(existing, new_ids) ==
    IF existing = None THEN new_ids ELSE existing[1].ids \o new_ids

\* update_tickets_only.main; has_corpus: the loaded BM25Okapi object has
\* the attribute corpus that update_bm25_index reads
update_tickets_only(st, tickets, has_corpus) ==
    LET Keep(t) == /\ Get(t, "ticket_id", None) \notin {None, Some("")}
                   /\ AddTicketUid(t) \notin DOMAIN st.tickets
                   /\ HasTicketText(t)
        Meta(t) == sanitize_metadata(TicketMetaUpdate(t))
        entries == Entries(tickets, Keep, AddTicketUid, TicketText, Meta)
        new_ids == IdList(tickets, Keep, AddTicketUid)
        added == coll_add(st.tickets, entries, st.accepts_null)
    IN  IF st.rag_v2 # None THEN [raised |-> TRUE, st |-> st]
        ELSE IF new_ids = <<>> THEN [raised |-> FALSE, st |-> st]
        ELSE IF added.raised THEN [raised |-> TRUE, st |-> st]
        ELSE IF st.bm25 # None /\ ~has_corpus
        THEN [raised |-> TRUE, st |-> [st EXCEPT !.tickets = added.coll]]
        ELSE [raised |-> FALSE,
              st |-> [st EXCEPT !.tickets = added.coll,
                                !.bm25 = Some([format |-> "tuple",
                                               ids |-> update_bm25_index(st.bm25, new_ids)])]]

\* the ids of a collection as collection.get() lists them
RECURSIVE CollIds(_)
CollIds(coll) ==
    IF DOMAIN coll = {} THEN <<>>
    ELSE LET id == CHOOSE id \in DOMAIN coll : TRUE
         IN  <<id>> \o CollIds([x \in DOMAIN coll \ {id} |-> coll[x]])

\* update_guides_incremental.main
update_guides_incremental(st, chunks) ==
    LET Keep(c) == TRUE
        Meta(c) == sanitize_metadata_guides(GuideMetaUpdate(c))
        new_map == Entries(chunks, Keep, GivenChunkId, ChunkText, Meta)
        existing_ids == DOMAIN st.guides
        to_delete == existing_ids \ DOMAIN new_map
        to_add == DOMAIN new_map \ existing_ids
        to_update == {cid \in DOMAIN new_map \cap existing_ids :
                         st.guides[cid].document # new_map[cid].document}
        after_delete == coll_delete(st.guides, to_delete)
        added == coll_add(after_delete, [cid \in to_add |-> new_map[cid]], st.accepts_null)
        updated == coll_add(coll_delete(added.coll, to_update),
                            [cid \in to_update |-> new_map[cid]], st.accepts_null)
    IN  IF st.rag_v2 # None THEN [raised |-> TRUE, st |-> st]
        ELSE [raised |-> FALSE,
              st |-> [st EXCEPT !.guides = updated.coll,
                                !.bm25 = Some([format |-> "tuple", ids |-> CollIds(updated.coll)])]]

MaxEdits == 1

IngNone == [op |-> "none", raised |-> FALSE, edits |-> 0]

EmptyStore(accepts_null) ==
    [rag_v2 |-> None, tickets |-> EmptyColl, guides |-> EmptyColl, bm25 |-> None,
     accepts_null |-> accepts_null]

IngestInit ==
    /\ files \in [tickets : TicketFiles, chunks : GuideFiles]
    /\ ing \in {EmptyStore(a) : a \in BOOLEAN}
    /\ ingLog = IngNone

\* the processed files are written anew by the earlier phases
EditFiles ==
    /\ ingLog.edits < MaxEdits
    /\ files' \in [tickets : TicketFiles, chunks : GuideFiles] \ {files}
    /\ ingLog' = [ingLog EXCEPT !.op = "edit", !.raised = FALSE, !.edits = @ + 1]
    /\ UNCHANGED ing

Ingested(op, res) ==
    /\ ing' = res.st
    /\ ingLog' = [ingLog EXCEPT !.op = op, !.raised = res.raised]
    /\ UNCHANGED files

AddTickets == \E res \in {add_tickets(ing, files.tickets)} : Ingested("add_tickets", res)
AddGuides == \E res \in {add_guides(ing, files.chunks)} : Ingested("add_guides", res)
Rebuild == \E res \in {rebuild_v2(ing, files.tickets, files.chunks)} : Ingested("rebuild", res)
UpdateTickets ==
    \E has_corpus \in BOOLEAN :
        \E res \in {update_tickets_only(ing, files.tickets, has_corpus)} :
            Ingested("update_tickets", res)
UpdateGuides ==
    \E res \in {update_guides_incremental(ing, files.chunks)} : Ingested("update_guides", res)

IngestIdle ==
    /\ files = [tickets |-> <<>>, chunks |-> <<>>]
    /\ ing = EmptyStore(TRUE)
    /\ ingLog = IngNone

-----------------------------------------------------------------------------
(* chunk_paragraph of the semantic chunker, one loop iteration per step.   *)
(* The words of the paragraph are numbered 1..n; a chunk words[start:end]  *)
(* is the pair <<start, end>> and holds the words start+1..end.  The list  *)
(* chunks is kept as the set of its members and the parity of its length.  *)

MaxWords == 5
MaxTargetWords == 3
MaxOverlapWords == 3

ChunkIdleState == [pc |-> "call", start |-> 0, chunks |-> {}, parity |-> 0]

ChunkInit ==
    /\ chIn \in [n : 0..MaxWords, target_words : 1..MaxTargetWords, overlap_words : 0..MaxOverlapWords]
    /\ chSt = ChunkIdleState

\* the statements before the loop: the two early returns
ChunkEnter ==
    /\ chSt.pc = "call"
    /\ chSt' = IF chIn.n = 0 THEN [chSt EXCEPT !.pc = "done"]
               ELSE IF chIn.n <= chIn.target_words
               THEN [chSt EXCEPT !.pc = "done", !.chunks = {<<0, chIn.n>>}, !.parity = 1]
               ELSE [chSt EXCEPT !.pc = "loop"]
    /\ UNCHANGED chIn

\* one iteration of while start < n
ChunkIterate ==
    /\ chSt.pc = "loop"
    /\ chSt' = IF ~(chSt.start < chIn.n) THEN [chSt EXCEPT !.pc = "done"]
               ELSE LET end == Min(chSt.start + chIn.target_words, chIn.n)
                        chunks == chSt.chunks \cup {<<chSt.start, end>>}
                    IN  IF end = chIn.n
                        THEN [chSt EXCEPT !.pc = "done", !.chunks = chunks,
                                          !.parity = 1 - @]
                        ELSE [chSt EXCEPT !.chunks = chunks, !.parity = 1 - @,
                                          !.start = Max(0, end - chIn.overlap_words)]
    /\ UNCHANGED chIn

ChunkIdle == chIn = [n |-> 0, target_words |-> 1, overlap_words |-> 0] /\ chSt = ChunkIdleState

ExtIdle == SparseIdle /\ DraftsIdle /\ IngestIdle /\ ChunkIdle
AuxIdle == StatIdle /\ TokIdle /\ ExtIdle

-----------------------------------------------------------------------------
(* Specifications *)

CtxNext ==
    BuildContext /\ UNCHANGED <<keyVars, cacheVars, thrVars, fuseVars, storeVars, auxVars>>
InitCtx == CtxInit /\ KeyIdle /\ CacheIdle /\ ThrIdle /\ FuseIdle /\ StoreIdle /\ AuxIdle
SpecCtx == InitCtx /\ [][CtxNext]_vars

KeyNext ==
    ComputeKeys /\ UNCHANGED <<ctxVars, cacheVars, thrVars, fuseVars, storeVars, auxVars>>
InitKey == KeyInit /\ CtxIdle /\ CacheIdle /\ ThrIdle /\ FuseIdle /\ StoreIdle /\ AuxIdle
SpecKey == InitKey /\ [][KeyNext]_vars

\* the same computation for any language text
InitAnyKey == AnyKeyInit /\ CtxIdle /\ CacheIdle /\ ThrIdle /\ FuseIdle /\ StoreIdle /\ AuxIdle
SpecAnyKey == InitAnyKey /\ [][KeyNext]_vars

\* the cache used directly: get, put and the passing of time
CacheNext ==
    /\ \/ Tick
       \/ \E k \in Keys : CacheGet(k)
       \/ \E k \in Keys, v \in PutValues : CachePut(k, v)
    /\ UNCHANGED <<ctxVars, keyVars, thrVars, fuseVars, storeVars, auxVars>>
InitCache == CacheInit /\ CtxIdle /\ KeyIdle /\ ThrIdle /\ FuseIdle /\ StoreIdle /\ AuxIdle
SpecCache == InitCache /\ [][CacheNext]_vars

\* queries issued one after another on one pipeline
QueryNext ==
    /\ \/ Tick
       \/ \E req \in Requests :
            \E ok \in BOOLEAN, fails \in [1..req.num_drafts -> BOOLEAN] :
               Query(req, ok, fails)
    /\ UNCHANGED <<ctxVars, keyVars, thrVars, fuseVars, storeVars, auxVars>>
InitQuery == CacheInit /\ CtxIdle /\ KeyIdle /\ ThrIdle /\ FuseIdle /\ StoreIdle /\ AuxIdle
SpecQuery == InitQuery /\ [][QueryNext]_vars

\* queries running in parallel on one pipeline
ConcNext ==
    /\ \/ ThrTick
       \/ \E t \in Threads, k \in Keys : GetCall(t, k)
       \/ \E t \in Threads : GetTest(t)
       \/ \E t \in Threads : GetRead(t)
       \/ \E t \in Threads : GetCheck(t)
       \/ \E t \in Threads : GetDel(t)
       \/ \E t \in Threads : GetReturn(t)
       \/ \E t \in Threads, k \in Keys, v \in PutValues : PutCall(t, k, v)
    /\ UNCHANGED <<ctxVars, keyVars, lastGet, lastPut, lastQ, fuseVars, storeVars, auxVars>>
InitConc == CacheInit /\ CtxIdle /\ KeyIdle /\ ThrInit /\ FuseIdle /\ StoreIdle /\ AuxIdle

\* one _hybrid_retrieve call on ranked candidate lists
FuseNext ==
    Fuse /\ UNCHANGED <<ctxVars, keyVars, cacheVars, thrVars, storeVars, auxVars>>
InitFuse == FuseInit /\ CtxIdle /\ KeyIdle /\ CacheIdle /\ ThrIdle /\ StoreIdle /\ AuxIdle
SpecConc == InitConc /\ [][ConcNext]_vars
SpecFuse == InitFuse /\ [][FuseNext]_vars

\* one _hybrid_retrieve call on the ranking scenario, default weights
RankNext ==
    Fuse /\ UNCHANGED <<ctxVars, keyVars, cacheVars, thrVars, storeVars, auxVars>>
InitRank == RankInit /\ CtxIdle /\ KeyIdle /\ CacheIdle /\ ThrIdle /\ StoreIdle /\ AuxIdle
SpecRank == InitRank /\ [][RankNext]_vars

\* both retrieval front ends over one store
StoreNext ==
    /\ \/ \E reranker \in RerankerChoices : RagConstruct(reranker)
       \/ VdbConstruct
       \/ \E k \in 1..MaxK : Retrieve(k, k)
       \/ \E k \in 1..MaxK : SearchTickets(k)
       \/ \E k \in 1..MaxK : SearchGuides(k)
    /\ UNCHANGED <<ctxVars, keyVars, cacheVars, thrVars, fuseVars, auxVars>>
InitStore == StoreInit /\ CtxIdle /\ KeyIdle /\ CacheIdle /\ ThrIdle /\ FuseIdle /\ AuxIdle
SpecStore == InitStore /\ [][StoreNext]_vars

\* a store that may stop answering, under one front end: LangchainRAG,
\* VectorDBManager, or a RAGPipeline whose search_all raises when the store
\* does
OutageNext ==
    \/ /\ lastQ = NoQuery
       /\ \/ StoreDown
          \/ \E reranker \in RerankerChoices : RagConstruct(reranker)
          \/ VdbConstruct
          \/ \E k \in 1..MaxK : Retrieve(k, k)
          \/ \E k \in 1..MaxK, llm_ok \in BOOLEAN : Answer(k, k, llm_ok)
          \/ \E k \in 1..MaxK : SearchTickets(k)
          \/ \E k \in 1..MaxK : SearchGuides(k)
       /\ UNCHANGED <<ctxVars, keyVars, cacheVars, thrVars, fuseVars, auxVars>>
    \/ /\ rag = None /\ vdb = None
       /\ \/ StoreDown /\ UNCHANGED cacheVars
          \/ \E req \in OutageRequests, ok \in BOOLEAN :
                /\ world.up \/ ~ok
                /\ Query(req, ok, <<FALSE>>)
                /\ UNCHANGED <<world, rag, vdb, out>>
       /\ UNCHANGED <<ctxVars, keyVars, thrVars, fuseVars, auxVars>>
InitOutage == OutageInit /\ CtxIdle /\ KeyIdle /\ CacheIdle /\ ThrIdle /\ FuseIdle /\ AuxIdle
SpecOutage == InitOutage /\ [][OutageNext]_vars

\* one status check on a constructed pipeline
StatusNext ==
    CheckStatus /\ UNCHANGED <<ctxVars, keyVars, cacheVars, thrVars, fuseVars, storeVars, tokVars, extVars>>
InitStatus == StatInit /\ CtxIdle /\ KeyIdle /\ CacheIdle /\ ThrIdle /\ FuseIdle /\ StoreIdle /\ TokIdle /\ ExtIdle
SpecStatus == InitStatus /\ [][StatusNext]_vars

\* one selection of BM25 query tokens
TokNext ==
    SelectTokens /\ UNCHANGED <<ctxVars, keyVars, cacheVars, thrVars, fuseVars, storeVars, statVars, extVars>>
InitTok == TokInit /\ CtxIdle /\ KeyIdle /\ CacheIdle /\ ThrIdle /\ FuseIdle /\ StoreIdle /\ StatIdle /\ ExtIdle
SpecTok == InitTok /\ [][TokNext]_vars

\* one selection of BM25 ticket candidates
SparseNext ==
    SparseCandidates /\ UNCHANGED <<ctxVars, keyVars, cacheVars, thrVars, fuseVars, storeVars, statVars, tokVars, drVars, ingVars, chVars>>
InitSparse == SparseInit /\ CtxIdle /\ KeyIdle /\ CacheIdle /\ ThrIdle /\ FuseIdle /\ StoreIdle /\ StatIdle /\ TokIdle /\ DraftsIdle /\ IngestIdle /\ ChunkIdle
SpecSparse == InitSparse /\ [][SparseNext]_vars

\* the draft loop of one multi-draft query
DraftsNext ==
    GenerateDrafts /\ UNCHANGED <<ctxVars, keyVars, cacheVars, thrVars, fuseVars, storeVars, statVars, tokVars, spVars, ingVars, chVars>>
InitDrafts == DraftsInit /\ CtxIdle /\ KeyIdle /\ CacheIdle /\ ThrIdle /\ FuseIdle /\ StoreIdle /\ StatIdle /\ TokIdle /\ SparseIdle /\ IngestIdle /\ ChunkIdle
SpecDrafts == InitDrafts /\ [][DraftsNext]_vars

\* any ingestion path, the processed files rewritten in between
IngestNext ==
    /\ \/ EditFiles
       \/ AddTickets
       \/ AddGuides
       \/ Rebuild
       \/ UpdateTickets
       \/ UpdateGuides
    /\ UNCHANGED <<ctxVars, keyVars, cacheVars, thrVars, fuseVars, storeVars, statVars, tokVars, spVars, drVars, chVars>>
InitIngest == IngestInit /\ CtxIdle /\ KeyIdle /\ CacheIdle /\ ThrIdle /\ FuseIdle /\ StoreIdle /\ StatIdle /\ TokIdle /\ SparseIdle /\ DraftsIdle /\ ChunkIdle
SpecIngest == InitIngest /\ [][IngestNext]_vars

\* the full rebuild and the two incremental updates only
IndexNext ==
    /\ \/ EditFiles
       \/ Rebuild
       \/ UpdateTickets
       \/ UpdateGuides
    /\ UNCHANGED <<ctxVars, keyVars, cacheVars, thrVars, fuseVars, storeVars, statVars, tokVars, spVars, drVars, chVars>>
InitIndex == IngestInit /\ CtxIdle /\ KeyIdle /\ CacheIdle /\ ThrIdle /\ FuseIdle /\ StoreIdle /\ StatIdle /\ TokIdle /\ SparseIdle /\ DraftsIdle /\ ChunkIdle
SpecIndex == InitIndex /\ [][IndexNext]_vars

\* one call of chunk_paragraph, which runs whenever it can
ChunkNext ==
    /\ \/ ChunkEnter
       \/ ChunkIterate
    /\ UNCHANGED <<ctxVars, keyVars, cacheVars, thrVars, fuseVars, storeVars, statVars, tokVars, spVars, drVars, ingVars>>
InitChunk == ChunkInit /\ CtxIdle /\ KeyIdle /\ CacheIdle /\ ThrIdle /\ FuseIdle /\ StoreIdle /\ StatIdle /\ TokIdle /\ SparseIdle /\ DraftsIdle /\ IngestIdle
SpecChunk == InitChunk /\ [][ChunkNext]_vars /\ WF_vars(ChunkNext)

-----------------------------------------------------------------------------
(* Claims *)


\* C1: the string returned by build_context is never longer than
\* max_total_chars, banners and join separators included.
C1_BudgetRespected ==
    ctxOut.done => ctxOut.len <= ctxIn.lim.max_total_chars

\* Queries that differ only in letter case or in leading/trailing whitespace:
\* each has a core, left after removing some whitespace-only prefix and
\* suffix, and the cores agree character by character up to case.
AllSpace(s) == \A i \in 1..Len(s) : s[i] \in Whitespace
Cores(q) ==
    {SubSeq(q, i + 1, j) : <<i, j>> \in
        {x \in (0..Len(q)) \X (0..Len(q)) :
            /\ x[1] <= x[2]
            /\ AllSpace(SubSeq(q, 1, x[1]))
            /\ AllSpace(SubSeq(q, x[2] + 1, Len(q)))}}
SameUpToCase(c1, c2) ==
    /\ Len(c1) = Len(c2)
    /\ \A i \in 1..Len(c1) : c1[i] = c2[i] \/ {c1[i], c2[i]} = {"A", "a"}
SameLogicalQuery(q1, q2) ==
    \E c1 \in Cores(q1), c2 \in Cores(q2) : SameUpToCase(c1, c2)

\* C5: the cache key is a deterministic function of (query lower-cased and
\* trimmed, n_tickets, n_guides, language): the same arguments, or queries
\* differing only in case or outer whitespace, give the same key; changing
\* n_tickets alone gives a different key.
C5_KeyDeterministic ==
    keyOut.done =>
        LET a == keyIn.a
            b == keyIn.b
        IN /\ keyOut.ka = keyOut.ka2
           /\ (/\ SameLogicalQuery(a.query, b.query)
               /\ a.n_tickets = b.n_tickets
               /\ a.n_guides = b.n_guides
               /\ a.language = b.language) => keyOut.ka = keyOut.kb
           /\ (/\ a.query = b.query
               /\ a.n_tickets # b.n_tickets
               /\ a.n_guides = b.n_guides
               /\ a.language = b.language) => keyOut.ka # keyOut.kb

C5_Witness ==
    /\ keyOut.done
    /\ keyIn.a.query = <<"A", " ">>
    /\ keyIn.b.query = <<"a">>
    /\ keyIn.a.n_tickets = keyIn.b.n_tickets
    /\ keyIn.a.language = keyIn.b.language
    /\ keyOut.ka = keyOut.kb

\* C2: a request with num_drafts > 1 or stream = True is never answered from
\* the cache and its result is never written to the cache.
C2_DraftsAndStreamBypassCache ==
    (lastQ.done /\ (lastQ.req.num_drafts > 1 \/ lastQ.req.stream))
        => (~lastQ.from_cache /\ ~lastQ.stored)

\* C3: a get of k issued less than the TTL after the latest put of k returns
\* the value put; a get issued more than the TTL after it misses and leaves
\* no entry for k (so later gets miss too, until k is put again).
C3_CacheTTL ==
    lastGet.done =>
        LET k == lastGet.key
            p == lastPut[k]
        IN /\ (p.set /\ lastGet.at - p.time < CacheTTL)
                => (lastGet.hit /\ lastGet.value = p.value)
           /\ (p.set /\ lastGet.at - p.time > CacheTTL)
                => (~lastGet.hit /\ k \notin DOMAIN cache)
           /\ ~p.set => ~lastGet.hit

C3_Witness ==
    /\ lastGet.done
    /\ lastPut[lastGet.key].set
    /\ lastGet.at - lastPut[lastGet.key].time > CacheTTL
    /\ ~lastGet.hit
    /\ lastGet.key \notin DOMAIN cache

\* C4: no cache entry holds the text of a failed generation.
C4_NoFailureCached ==
    \A k \in DOMAIN cache : cache[k].response.response # ErrorText

C9_NoRaceError ==
    \A t \in Threads :
        /\ thr[t].pc # "raised"
        /\ (thr[t].pc = "done" /\ thr[t].hit)
              => thr[t].ret \in everPut[thr[t].key]

\* document ids in ascending order of Python's string comparison
IdOrder == <<G1, G2, T1, T3, T4>>
IdRank(id) == CHOOSE i \in 1..Len(IdOrder) : IdOrder[i] = id

\* C7: the list returned by _hybrid_retrieve is in descending order of
\* hybrid score, and two candidates with the same hybrid score appear in
\* ascending order of their document ids.
C7_SortedTiesById ==
    fuseOut.done =>
        \A i, j \in 1..Len(fuseOut.docs) :
            i < j =>
                \/ fuseOut.docs[i].score > fuseOut.docs[j].score
                \/ /\ fuseOut.docs[i].score = fuseOut.docs[j].score
                   /\ IdRank(fuseOut.docs[i].doc_id)
                        < IdRank(fuseOut.docs[j].doc_id)

\* the part of C7 that holds: descending order of hybrid score
C7_SortedDescending ==
    fuseOut.done =>
        \A i, j \in 1..Len(fuseOut.docs) :
            i < j => fuseOut.docs[i].score >= fuseOut.docs[j].score

\* the four lists of a result describe the same documents index by index
SameLengths(res) ==
    /\ Len(res.ids) = Len(res.documents)
    /\ Len(res.ids) = Len(res.metadatas)
    /\ Len(res.ids) = Len(res.distances)

StoredDistance(id) ==
    LET i == CHOOSE i \in 1..Len(world.docs) : world.docs[i].id = id
    IN  world.docs[i].distance

AlignedVdb(res) ==
    /\ SameLengths(res)
    /\ \A i \in 1..Len(res.ids) :
          /\ res.metadatas[i].id = Some(res.ids[i])
          /\ res.documents[i] = DocText(res.ids[i])
          /\ res.distances[i] \in {StoredDistance(res.ids[i]), DummyDistance}

AlignedRag(res) ==
    /\ SameLengths(res)
    /\ \A i \in 1..Len(res.ids) :
          /\ Some(res.ids[i]) \in {res.metadatas[i].id,
                                   res.metadatas[i].source_id}
          /\ res.documents[i] = DocText(res.ids[i])
          /\ res.distances[i]
                = One * WeightScale - res.metadatas[i].hybrid_score

OnlyType(res, type) ==
    \A i \in 1..Len(res.metadatas) : res.metadatas[i].type = Some(type)

\* C6: when the store's type filter raises and the unfiltered query works,
\* a retrieval raises nothing, its tickets all have metadata type ticket and
\* its guides metadata type guide_chunk, and ids, documents, metadatas and
\* distances describe the same document at every index.
C6_FallbackOnlyRequestedType ==
    (~world.filter_ok /\ out.op # "none") =>
        /\ ~out.raised
        /\ OnlyType(out.tickets, "ticket")
        /\ OnlyType(out.guides, "guide_chunk")
        /\ out.op = "retrieve" =>
              AlignedRag(out.tickets) /\ AlignedRag(out.guides)
        /\ out.op # "retrieve" =>
              AlignedVdb(out.tickets) /\ AlignedVdb(out.guides)

\* a ticket search through the fallback that had a guide to drop on the way
\* to the ticket it returned
C6_Witness ==
    /\ ~world.filter_ok
    /\ out.op = "search_tickets"
    /\ Len(out.tickets.ids) >= 1
    /\ \E i, j \in 1..world.reach :
          /\ i < j
          /\ world.docs[i].type = "guide_chunk"
          /\ world.docs[j].type = "ticket"

\* the stored documents of a type that a dense query reaches, nearest
\* first: the nearest of that type when the query is filtered, those among
\* the nearest of any type when it is not
Reached(type, filtered) ==
    LET IsType(d) == d.type = type
    IN  IF filtered THEN Prefix(SelectSeq(world.docs, IsType), world.reach)
        ELSE SelectSeq(Prefix(world.docs, world.reach), IsType)

DenseReach(type) == AsDocuments(QueryResult(Reached(type, rag[1].filtered)))

DenseOnly(type, k) ==
    _build_chroma_format(Prefix(
        RerankStage(rag[1],
            _hybrid_retrieve(world.query, DenseReach(type), <<>>,
                             Max(k * FuseFactor, FuseFloor),
                             HYBRID_DENSE_WEIGHT, HYBRID_SPARSE_WEIGHT), k),
        k))

NoSparsePart(res) ==
    \A i \in 1..Len(res.metadatas) :
        /\ res.metadatas[i].id # None
        /\ res.metadatas[i].hybrid_score
             = HYBRID_DENSE_WEIGHT * DefaultSimilarity
               + LexicalWeight * res.metadatas[i].lexical_score

\* C10: without a BM25 file, construction leaves the sparse retriever
\* unset and raises nothing, and retrieve raises nothing and returns what
\* fusion gives for the dense candidates and an empty sparse list, every
\* score being the dense part plus the lexical boost; the VectorDBManager
\* searches return reached documents only.
C10_DenseOnlyWithoutBm25 ==
    world.bm25 = None =>
        /\ rag # None => rag[1].bm25_retriever = None
        /\ vdb # None => vdb[1].bm25_index = None
        /\ ~out.raised
        /\ out.op = "retrieve" =>
              /\ out.tickets = DenseOnly("ticket", out.k)
              /\ out.guides = DenseOnly("guide_chunk", out.kg)
              /\ NoSparsePart(out.tickets) /\ NoSparsePart(out.guides)
        /\ out.op = "search_tickets" =>
              LET reached == Reached("ticket", world.filter_ok)
              IN  \A i \in 1..Len(out.tickets.ids) :
                      \E j \in 1..Len(reached) :
                          reached[j].id = out.tickets.ids[i]

\* a retrieval without BM25 file that ranked two dense tickets
C10_Witness ==
    /\ world.bm25 = None
    /\ out.op = "retrieve"
    /\ Len(out.tickets.ids) >= 2

\* the document ids a candidate list refers to
DenseIdsOf(docs) == {docs[i].id[1] : i \in 1..Len(docs)}
SparseIdsOf(docs) == {docs[i].source_id[1] : i \in 1..Len(docs)}

\* C11: every entry of the fused list has integer dense, sparse, lexical
\* and hybrid scores; an entry found only by the dense channel has sparse
\* score 0 and an entry found only by the sparse channel has dense score 0.
C11_MissingChannelIsZero ==
    fuseOut.done =>
        \A i \in 1..Len(fuseOut.docs) :
            LET e == fuseOut.docs[i]
            IN  /\ e.dense_score \in Int /\ e.sparse_score \in Int
                /\ e.lexical_score \in Int /\ e.score \in Int
                /\ e.score = fuseIn.dense_weight * e.dense_score
                             + fuseIn.sparse_weight * e.sparse_score
                             + LexicalWeight * e.lexical_score
                /\ e.doc_id \notin SparseIdsOf(fuseIn.sparse_docs)
                       => e.sparse_score = 0
                /\ e.doc_id \notin DenseIdsOf(fuseIn.dense_docs)
                       => e.dense_score = 0

\* a fused list with a dense-only and a sparse-only entry, the sparse-only
\* one with a positive sparse score
C11_Witness ==
    /\ fuseOut.done
    /\ \E i, j \in 1..Len(fuseOut.docs) :
          /\ fuseOut.docs[i].doc_id \notin SparseIdsOf(fuseIn.sparse_docs)
          /\ fuseOut.docs[j].doc_id \notin DenseIdsOf(fuseIn.dense_docs)
          /\ fuseOut.docs[j].sparse_score > 0

\* the scores a dense candidate can have, in thousandths
ScoreGrid == {0, 500, 800, 900, 1000}

C13_RankedByExactScores ==
    fuseOut.done =>
        \A i, j \in 1..Len(fuseOut.docs) :
            LET t1 == fuseOut.docs[i]
                t2 == fuseOut.docs[j]
            IN  (/\ t1.sparse_score = 0 /\ t1.lexical_score = 0
                 /\ t2.dense_score = 0) =>
                    /\ t1.dense_score = 900 => t1.score = 58500
                    /\ (t2.sparse_score = One /\ t2.lexical_score = One)
                           => t2.score = 55000
                    /\ j < i <=>
                           HYBRID_SPARSE_WEIGHT * t2.sparse_score
                               + LexicalWeight * t2.lexical_score
                           > HYBRID_DENSE_WEIGHT * t1.dense_score

\* the scenario itself: T1 with 0.585 ranked first, T2 with 0.55 second
C13_Witness ==
    /\ fuseOut.done
    /\ Len(fuseOut.docs) = 2
    /\ fuseOut.docs[1].doc_id = T4 /\ fuseOut.docs[1].score = 58500
    /\ fuseOut.docs[1].dense_score = 900
    /\ fuseOut.docs[2].doc_id = T5 /\ fuseOut.docs[2].score = 55000
    /\ fuseOut.docs[2].sparse_score = One
    /\ fuseOut.docs[2].lexical_score = One

\* the reranker of the pipeline exists and its cross-encoder did not load
RerankerFailed ==
    /\ rag # None
    /\ rag[1].reranker # None
    /\ rag[1].reranker[1].ce = None

\* C14: when the cross-encoder failed to load the pipeline is constructed
\* all the same, rerank returns the first top_k candidates in their input
\* order for every top_k, and retrieve returns the fused lists cut to the
\* requested counts, in fused order.
C14_RerankerPassthrough ==
    (RerankerFailed /\ out.op = "retrieve") =>
        /\ ~out.raised
        /\ \A n \in 0..Len(out.fused.tickets) :
              rerank(rag[1].reranker[1], out.fused.tickets, n)
                  = SubSeq(out.fused.tickets, 1, n)
        /\ out.tickets.ids =
              [i \in 1..Min(out.k, Len(out.fused.tickets)) |->
                  out.fused.tickets[i].doc_id]
        /\ out.guides.ids =
              [i \in 1..Min(out.kg, Len(out.fused.guides)) |->
                  out.fused.guides[i].doc_id]

\* a retrieval of one ticket out of several fused ones, the first fused
\* ticket not being the one a loaded cross-encoder would put first
C14_Witness ==
    /\ RerankerFailed
    /\ out.op = "retrieve"
    /\ out.k = 1
    /\ Len(out.fused.tickets) >= 2
    /\ \E o \in CeOracles :
          rerank([ce |-> Some(o)], out.fused.tickets, 1)
              # SubSeq(out.fused.tickets, 1, 1)

\* C15: a call made while the store answers no query at all ends with the
\* error: search_tickets, search_guides, retrieve and answer raise and hand
\* back no result, and a RAGPipeline query that is not served from the cache
\* raises instead of returning an answer.
C15_OutagePropagates ==
    [][(~world.up /\ world' = world) =>
          /\ out' # out =>
                /\ out'.raised
                /\ out'.tickets.ids = <<>>
                /\ out'.guides.ids = <<>>
          /\ lastQ' # lastQ =>
                lastQ'.from_cache \/ lastQ'.outcome = "raised"]_vars

\* documents are stored and the store accepts filters, yet the ticket search
\* made after the store went down raised
C15_Witness ==
    /\ ~world.up
    /\ world.docs # <<>>
    /\ world.filter_ok
    /\ out.op = "search_tickets"
    /\ out.raised

\* the ids of the tickets in the store
StoredTickets ==
    {world.docs[i].id : i \in {j \in 1..Len(world.docs) : world.docs[j].type = "ticket"}}

ReturnedTickets == {out.tickets.ids[i] : i \in 1..Len(out.tickets.ids)}

\* C16: over a store that answers queries, search_tickets raises nothing and
\* returns at most k tickets with ids, documents, metadatas and distances of
\* one length; when fewer than k tickets are stored (and so fewer than the
\* candidate count the dense query asks for), it returns every stored ticket.
C16_AtMostKAllWhenFewer ==
    out.op = "search_tickets" =>
        /\ ~out.raised
        /\ Len(out.tickets.ids) <= out.k
        /\ SameLengths(out.tickets)
        /\ (/\ Cardinality(StoredTickets) < out.k
            /\ Cardinality(StoredTickets) <= world.reach)
              => ReturnedTickets = StoredTickets

\* the part of C16 that holds: no exception, at most k tickets, four lists
\* of one length, and every stored ticket when the type filter works
C16_AtMostKAligned ==
    out.op = "search_tickets" =>
        /\ ~out.raised
        /\ Len(out.tickets.ids) <= out.k
        /\ SameLengths(out.tickets)
        /\ (/\ world.filter_ok
            /\ Cardinality(StoredTickets) < out.k
            /\ Cardinality(StoredTickets) <= world.reach)
              => ReturnedTickets = StoredTickets

\* C17: when the Ollama model listing succeeds, the status record returned
\* by check_ollama_status has the field 'ollama_running' with value True and
\* has the field 'available_models'.
C17_OllamaRunningReported ==
    (/\ statOut # None
     /\ statIn.provider = "ollama"
     /\ statIn.listing.shape # "raises") =>
        /\ "ollama_running" \in DOMAIN statOut[1]
        /\ statOut[1].ollama_running = TRUE
        /\ "available_models" \in DOMAIN statOut[1]

\* what the record does carry after a successful listing: 'available' with
\* value True, and under 'available_models' the non-empty names of the
\* listed dict entries, in order
C17_AvailableReported ==
    (/\ statOut # None
     /\ statIn.provider = "ollama"
     /\ statIn.listing.shape # "raises") =>
        /\ DOMAIN statOut[1] = {"provider", "available", "model_available",
                                "available_models", "requested_model"}
        /\ statOut[1].available = TRUE
        /\ statOut[1].provider = "ollama"
        /\ Len(statOut[1].available_models) <= Len(statIn.listing.models)

\* the items of the assembled context (the banners left out), and the
\* tickets and guides the two loops were offered
CtxItems == SelectSeq(ctxOut.parts, LAMBDA p : p.idx > 0)
TicketsPlaced == Cardinality({j \in 1..Len(CtxItems) : CtxItems[j].kind = "ticket"})
GuidesPlaced == Cardinality({j \in 1..Len(CtxItems) : CtxItems[j].kind = "guide"})
TicketsOffered == Min(Len(ctxIn.tickets), ctxIn.lim.max_tickets)
TicketChars ==
    SumLen(SelectSeq(ctxOut.parts, LAMBDA p : p.kind = "ticket"))

\* the items are the first tickets in rank order followed by the first
\* guides in rank order
CtxItemsArePrefix ==
    \A j \in 1..Len(CtxItems) :
        IF j <= TicketsPlaced
        THEN CtxItems[j].kind = "ticket" /\ CtxItems[j].idx = j
        ELSE CtxItems[j].kind = "guide"
             /\ CtxItems[j].idx = j - TicketsPlaced

\* a ticket was offered while budget was left and was not placed
TicketRefused ==
    /\ ctxIn.tickets_given
    /\ TicketsPlaced < TicketsOffered
    /\ TicketChars < ctxIn.lim.max_total_chars

\* C18: the context holds a prefix of the ranked tickets followed by a
\* prefix of the ranked guides; an item truncated to fit the remaining
\* budget is the last item, and after a ticket was refused for lack of
\* useful room no guide is placed.
C18_StopsAfterCutOrRefusal ==
    ctxOut.done =>
        /\ CtxItemsArePrefix
        /\ \A j \in 1..Len(CtxItems) : CtxItems[j].cut => j = Len(CtxItems)
        /\ TicketRefused => GuidesPlaced = 0

\* the part of C18 that holds: a prefix in rank order, ending with the item
\* that was truncated to fit, if any
C18_PrefixEndsAtCut ==
    ctxOut.done =>
        /\ CtxItemsArePrefix
        /\ \A j \in 1..Len(CtxItems) : CtxItems[j].cut => j = Len(CtxItems)

\* the dense and the sparse candidate with a given id, and the BM25 score
\* the sparse scores are divided by
DenseWithId(id) ==
    fuseIn.dense_docs[CHOOSE i \in 1..Len(fuseIn.dense_docs) :
                          fuseIn.dense_docs[i].id = Some(id)]
SparseWithId(id) ==
    fuseIn.sparse_docs[CHOOSE i \in 1..Len(fuseIn.sparse_docs) :
                           fuseIn.sparse_docs[i].source_id = Some(id)]
MaxSparseIn ==
    LET scores == {Bm25Of(fuseIn.sparse_docs[i]) :
                      i \in 1..Len(fuseIn.sparse_docs)} \cup {0}
        top == CHOOSE m \in scores : \A s \in scores : s <= m
    IN  IF top > 0 THEN top ELSE 1

\* C19: the fused list has one entry per document id, up to top_k: no two
\* entries have the same id, and the entry of a document found by both
\* channels carries the similarity of its dense candidate and the BM25 score
\* of its sparse candidate divided by the largest BM25 score.
C19_OneEntryPerDocument ==
    fuseOut.done =>
        LET dense_ids == DenseIdsOf(fuseIn.dense_docs)
            sparse_ids == SparseIdsOf(fuseIn.sparse_docs)
        IN  /\ \A i, j \in 1..Len(fuseOut.docs) :
                  i # j => fuseOut.docs[i].doc_id # fuseOut.docs[j].doc_id
            /\ Len(fuseOut.docs)
                  = Min(fuseIn.top_k, Cardinality(dense_ids \cup sparse_ids))
            /\ \A i \in 1..Len(fuseOut.docs) :
                  LET e == fuseOut.docs[i]
                  IN  e.doc_id \in dense_ids \cap sparse_ids =>
                        /\ e.dense_score
                              = DenseSimilarity(DenseWithId(e.doc_id))
                        /\ e.sparse_score
                              = (Bm25Of(SparseWithId(e.doc_id)) * One)
                                    \div MaxSparseIn

\* a fusion of two dense and two sparse candidates that share one document,
\* whose sparse score is neither zero nor the largest
C19_Witness ==
    /\ fuseOut.done
    /\ Len(fuseIn.dense_docs) = 2 /\ Len(fuseIn.sparse_docs) = 2
    /\ Len(fuseOut.docs) = 3
    /\ \E i \in 1..3 :
          /\ fuseOut.docs[i].doc_id \in DenseIdsOf(fuseIn.dense_docs)
          /\ fuseOut.docs[i].doc_id \in SparseIdsOf(fuseIn.sparse_docs)
          /\ fuseOut.docs[i].sparse_score = One \div 2

\* the words the token selection is offered: those of the lower-cased
\* query and those of its expanded terms
OfferedWords ==
    LET words == [i \in 1..Len(tokIn) |-> LowerWord(tokIn[i])]
        terms == expanded_terms(words)
    IN  {t[i] : <<t, i>> \in {x \in terms \X (1..3) : x[2] <= Len(x[1])}}

OnAllowList(word) == Clean(word) \in important_terms_bm25
OnStopList(word) == Raw(word) \in stopwords \/ Clean(word) \in stopwords

\* C20: of the words offered to the BM25 token selection, one on the
\* important-terms list is kept whatever its length, one on the stop-word
\* list is dropped, and any other is kept exactly when it has at least 4
\* alphanumeric characters.
C20_AllowStopLength ==
    tokOut.done =>
        \A word \in OfferedWords :
            /\ OnAllowList(word) => Clean(word) \in tokOut.tokens
            /\ OnStopList(word) => Clean(word) \notin tokOut.tokens
            /\ (~OnAllowList(word) /\ ~OnStopList(word)) =>
                  (Clean(word) \in tokOut.tokens <=> Len(Clean(word)) >= 4)

\* the part of C20 that holds, the lists being compared with the word
\* stripped of its non-alphanumeric characters
C20_RuleOnCleanedWords ==
    tokOut.done =>
        /\ \A word \in OfferedWords :
              /\ OnAllowList(word) => Clean(word) \in tokOut.tokens
              /\ Clean(word) \in stopwords => Clean(word) \notin tokOut.tokens
              /\ (~OnAllowList(word) /\ Clean(word) \notin stopwords) =>
                    (Clean(word) \in tokOut.tokens <=> Len(Clean(word)) >= 4)
        /\ tokOut.tokens \subseteq {Clean(word) : word \in OfferedWords}

\* C21: a selection for a retrieval of k tickets yields at most
\* min(3 * k, 500) sparse candidates, all of them tickets.
C21_AtMost3kOfType ==
    spOut.done =>
        /\ Cardinality(spOut.ids) <= Min(SparseFactor * spIn.k, SparseCap)
        /\ \A id \in spOut.ids : HasPrefix(id, "ticket")

\* the part of C21 that holds: the candidates are tickets of the index,
\* at most min(3 * candidate_k, 500) of them
C21_OfTypeWithinCandidateCap ==
    spOut.done =>
        /\ Cardinality(spOut.ids) <= Min(SparseFactor * CandidateK(spIn.k), SparseCap)
        /\ \A id \in spOut.ids :
              HasPrefix(id, "ticket") /\ \E i \in 1..Len(spIn.bm25.ids) : spIn.bm25.ids[i] = id

\* C22: in a multi-draft query the temperatures of the drafts strictly
\* increase with the draft number, so no two drafts share a temperature.
C22_TemperaturesStrictlyIncrease ==
    drOut.done =>
        \A i, j \in 1..Len(drOut.responses) :
            i < j => drOut.responses[i].temperature < drOut.responses[j].temperature

\* the part of C22 that holds: one draft per number, temperatures never
\* decreasing, and strictly increasing over the first five drafts
C22_AscendingUpToFive ==
    drOut.done =>
        /\ Len(drOut.responses) = drIn.num_drafts
        /\ \A i, j \in 1..Len(drOut.responses) :
              i < j =>
                 /\ drOut.responses[i].draft_number = i
                 /\ drOut.responses[i].temperature <= drOut.responses[j].temperature
                 /\ j <= Len(Temperatures) =>
                       drOut.responses[i].temperature < drOut.responses[j].temperature

\* C23: a get of k issued exactly the TTL after the latest put of k still
\* returns the value put: an entry expires only when its age exceeds the TTL.
C23_HitAtExactlyTTL ==
    (lastGet.done /\ lastPut[lastGet.key].set
        /\ lastGet.at - lastPut[lastGet.key].time = CacheTTL)
        => (lastGet.hit /\ lastGet.value = lastPut[lastGet.key].value)

\* the part of C23 that holds: a get of a key that was put misses only
\* when the entry's age has reached the TTL
C23_MissOnlyFromTTL ==
    (lastGet.done /\ lastPut[lastGet.key].set /\ ~lastGet.hit)
        => lastGet.at - lastPut[lastGet.key].time >= CacheTTL

\* the collections of the document store
Collections(st) ==
    {st.tickets, st.guides} \cup (IF st.rag_v2 = None THEN {} ELSE {st.rag_v2[1]})

NoNullMetadata(st) == \A coll \in Collections(st) : ~HasNone(coll)

\* C24: no metadata value held in the document store is null, whichever
\* ingestion path wrote it and whatever null fields the input records carry.
C24_NoNullMetadata == NoNullMetadata(ing)

\* the part of C24 that holds: the full rebuild and the two incremental
\* updates add no null metadata value, and no path gets one into a store
\* that rejects them
C24_SanitizingPathsNoNull ==
    [][/\ (ingLog'.op \in {"rebuild", "update_tickets", "update_guides"} /\ NoNullMetadata(ing))
            => NoNullMetadata(ing')
       /\ (~ing.accepts_null /\ NoNullMetadata(ing)) => NoNullMetadata(ing')]_vars

\* the document ids of the collections a VectorDBManager over the store uses
DocumentIds(st) ==
    IF st.rag_v2 # None THEN DOMAIN st.rag_v2[1]
    ELSE DOMAIN st.tickets \cup DOMAIN st.guides

\* the document ids of the BM25 pickle
SparseIndexIds(st) ==
    IF st.bm25 = None THEN {} ELSE {st.bm25[1].ids[i] : i \in 1..Len(st.bm25[1].ids)}

\* C25: whatever full rebuilds and incremental ticket and guide updates
\* have run, the persisted sparse index covers exactly the document ids
\* held in the document store.
C25_IndexCoversStore == SparseIndexIds(ing) = DocumentIds(ing)

\* the part of C25 that holds: the index names stored documents only, and
\* names all of them right after a full rebuild
C25_IndexWithinStoreEqualAfterRebuild ==
    /\ SparseIndexIds(ing) \subseteq DocumentIds(ing)
    /\ ingLog.op = "rebuild" => SparseIndexIds(ing) = DocumentIds(ing)

\* the entries of all keys but k are the same before and after the step
OtherEntriesKept(k) ==
    \A j \in Keys \ {k} :
        /\ j \in DOMAIN cache' <=> j \in DOMAIN cache
        /\ j \in DOMAIN cache => cache'[j] = cache[j]

\* C26: a put of k leaves k with the value put, stamped with the current
\* time, whatever entry k had, and changes the entry of no other key; a get
\* of k changes the entry of no key other than k.
C26_PutOverwritesGetAndPutFrame ==
    [][/\ \A k \in Keys, v \in PutValues :
             CachePut(k, v) =>
                /\ k \in DOMAIN cache'
                /\ cache'[k] = [response |-> v, timestamp |-> now]
                /\ OtherEntriesKept(k)
       /\ \A k \in Keys : CacheGet(k) => OtherEntriesKept(k)]_vars

\* a put has replaced an older entry of its key while another key holds an
\* entry, or a get has purged its key while another key holds an entry
C26_Witness ==
    \E k \in Keys, j \in Keys :
        /\ j # k /\ j \in DOMAIN cache
        /\ lastPut[k].set /\ lastPut[j].set
        /\ \/ /\ k \in DOMAIN cache /\ lastGet = NoGet
              /\ cache[k].timestamp = now /\ now > 0
              /\ cache[k].response # cache[j].response
           \/ /\ k \notin DOMAIN cache
              /\ lastGet.done /\ lastGet.key = k /\ ~lastGet.hit

ChunkDone == chSt.pc = "done"

\* every word is in some chunk and no chunk is longer than target_words
ChunksCover ==
    /\ \A w \in 1..chIn.n : \E c \in chSt.chunks : c[1] < w /\ w <= c[2]
    /\ \A c \in chSt.chunks : c[2] - c[1] <= chIn.target_words

\* C27: chunk_paragraph returns for every paragraph, target_words >= 1 and
\* overlap_words >= 0, and when it returns every word of the paragraph is
\* in some chunk and no chunk has more than target_words words.
C27_TerminatesAndCovers == <>ChunkDone /\ [](ChunkDone => ChunksCover)

\* the part of C27 that holds: the call returns whenever overlap_words is
\* less than target_words, and any chunks returned cover the paragraph
C27_TerminatesWithSmallOverlap ==
    /\ (chIn.overlap_words < chIn.target_words) => <>ChunkDone
    /\ [](ChunkDone => ChunksCover)

\* the tuple a request is identified by
RequestTuple(r) == <<Strip(Lower(r.query)), r.n_tickets, r.n_guides, r.language>>

\* C28: two requests that differ in (normalized query, n_tickets, n_guides,
\* language) are never given the same pre-hash cache input, also when the
\* query or the language holds the separator '_' or digits.
C28_DistinctRequestsDistinctInputs ==
    keyOut.done =>
        (RequestTuple(keyIn.a) # RequestTuple(keyIn.b)
            => keyOut.ka.md5_of # keyOut.kb.md5_of)

\* the part of C28 that holds: requests whose language holds no separator
\* get different inputs, whatever the query holds
C28_DistinctWhenLanguagePlain ==
    keyOut.done =>
        ((/\ RequestTuple(keyIn.a) # RequestTuple(keyIn.b)
          /\ \A i \in 1..Len(keyIn.a.language) : keyIn.a.language[i] # "_"
          /\ \A i \in 1..Len(keyIn.b.language) : keyIn.b.language[i] # "_")
            => keyOut.ka.md5_of # keyOut.kb.md5_of)

\* the document type of an id in one of the two formats the index builder
\* writes: ticket_<id>__idx<n> and <guide_number>__sec<i>__chunk<j>
WrittenType(doc_id) ==
    IF \E i \in 1..Len(Numerals) : doc_id = TicketId(i)
    THEN Some("ticket")
    ELSE IF \E i \in 1..Len(Numerals) : doc_id = GuideChunkId(i)
    THEN Some("guide_chunk")
    ELSE None

\* the ids of the candidates fusion returned
FusedIds(scored) == {IdOf(scored[i].doc) : i \in 1..Len(scored)}

\* the hits of the sparse retriever of the pipeline
SparseHits == BM25Retriever_get(rag[1].bm25_retriever[1])

\* C29: every sparse hit whose id has the format the index builder writes
\* is tagged with its document type by the sparse retriever, survives the
\* filter of that type and is among the candidates fusion returns for it.
C29_WrittenIdsReachFusion ==
    (/\ out.op = "retrieve" /\ ~out.raised
     /\ rag # None /\ rag[1].bm25_retriever # None) =>
        \A i \in 1..Len(SparseHits) :
            LET doc_id == SparseHits[i].source_id[1]
                written == WrittenType(doc_id)
            IN  written # None =>
                    /\ SparseHits[i].type = written
                    /\ \E j \in 1..Len(_filter_by_type(SparseHits, written[1])) :
                          _filter_by_type(SparseHits, written[1])[j] = SparseHits[i]
                    /\ doc_id \in FusedIds(IF written[1] = "ticket"
                                           THEN out.fused.tickets
                                           ELSE out.fused.guides)

\* the part of C29 that holds: a sparse hit is tagged and passes a filter
\* exactly when its id holds _ticket_ or _guide_ between other pieces,
\* which no id in the written formats does
C29_OnlyInfixIdsPass ==
    (/\ out.op = "retrieve" /\ ~out.raised
     /\ rag # None /\ rag[1].bm25_retriever # None) =>
        \A i \in 1..Len(SparseHits) :
            LET doc_id == SparseHits[i].source_id[1]
            IN  /\ SparseHits[i].type # None
                     <=> (HasInfix(doc_id, "ticket") \/ HasInfix(doc_id, "guide"))
                /\ WrittenType(doc_id) # None => SparseHits[i].type = None

\* the lists search_tickets holds before its final ranking: the dense
\* result, the sparse-only tickets fetched from the store, and both merged
TicketCandidates(w, bm25, k) ==
    LET candidate_k == Max(k * CandidateFactor, CandidateFloor)
        filtered == coll_query(w, candidate_k, Some("ticket"))
        semantic_results ==
            IF ~filtered.raised THEN filtered
            ELSE FilterFallback(coll_query(w, candidate_k * 2, None),
                                "ticket", candidate_k)
        semantic_ids ==
            {semantic_results.ids[i] : i \in 1..Len(semantic_results.ids)}
        bm25_candidate_ids == Bm25CandidateIds(bm25, candidate_k)
        missing == bm25_candidate_ids \ semantic_ids
        missing_results ==
            IF missing = {} \/ semantic_results.raised THEN NoResults
            ELSE coll_get(w, MissingIds(bm25, missing), "ticket")
    IN  [semantic |-> semantic_results,
         missing |-> IF missing_results.raised THEN NoResults
                     ELSE missing_results,
         ranked |-> IF semantic_results.raised THEN NoResults
                    ELSE _rerank_tickets_lexical(w.query,
                             MergeMissing(semantic_results, missing_results),
                             bm25_candidate_ids)]

\* C30: in search_tickets every sparse-only ticket fetched from the store
\* is given a distance and takes part in the final ranking; when the store
\* returns m >= 1 such tickets and the dense list is empty, the call
\* returns min(k, m) tickets.
C30_FetchedTicketsRanked ==
    (out.op = "search_tickets" /\ ~out.raised /\ vdb # None) =>
        \E c \in {TicketCandidates(world, vdb[1].bm25_index, out.k)} :
            Len(c.missing.ids) >= 1 =>
                /\ \A i \in 1..Len(c.missing.ids) :
                      \E j \in 1..Len(c.ranked.ids) :
                          /\ c.ranked.ids[j] = c.missing.ids[i]
                          /\ j <= Len(c.ranked.distances)
                /\ c.semantic.ids = <<>> =>
                      Len(out.tickets.ids) = Min(out.k, Len(c.missing.ids))

\* the part of C30 that holds: the fetched tickets are ranked, each with
\* the distance DummyDistance, whenever the dense list is not empty
C30_FetchedRankedBesideDense ==
    (out.op = "search_tickets" /\ ~out.raised /\ vdb # None) =>
        \E c \in {TicketCandidates(world, vdb[1].bm25_index, out.k)} :
            (Len(c.missing.ids) >= 1 /\ c.semantic.ids # <<>>) =>
                /\ \A i \in 1..Len(c.missing.ids) :
                      \E j \in 1..Len(c.ranked.ids) :
                          /\ c.ranked.ids[j] = c.missing.ids[i]
                          /\ c.ranked.distances[j] = DummyDistance
                /\ out.tickets = Trim(c.ranked, out.k)

=============================================================================
